---- MODULE Spec2Model ----
(***************************************************************************)
(* Possession reconstruction of daily_fetch.py: the three context          *)
(* classifiers, the possession state machine (track_possessions_v2) and    *)
(* the possession classifier (classify_possessions), run on one game's     *)
(* play-by-play event log.                                                 *)
(*                                                                         *)
(* A play text is modelled by the set of the substrings the code looks     *)
(* for in it ("makes", " made ", "missed", "misses", "won", "block",       *)
(* "shooting", and an "M of N" pattern); a null value (None / NaN) is the  *)
(* string Null, a null text the set NullTxt.  Null team values are Python  *)
(* None, as pandas keeps them in an object column built from dicts.        *)
(***************************************************************************)
EXTENDS Integers, Sequences, FiniteSets, TLC

\* ------------------------------------------------------------------ bounds
\* Longest event log of the general family; the logs of the narrow families are
\* up to two events longer.
MaxLen == 2

\* The longest run of markers between a miss and its dead-ball rebound.
MaxMarkers == 10

\* ------------------------------------------------------------- vocabulary
Null == "null"
NullTxt == {Null}
\* None / NaN in a numeric column of the summary table.
NoneNum == -1000

FG_TYPES == {"JumpShot", "LayUpShot", "DunkShot", "TipShot"}

\* The playType strings that contain "Turnover", "Technical", "Foul".
TurnoverTypes == {"Lost Ball Turnover", "Turnover"}
TechnicalTypes == {"TechnicalFoul"}
FoulTypes == {"PersonalFoul", "TechnicalFoul"}

MofNTokens == {"1 of 1", "1 of 2", "2 of 2", "2 of 3"}
MVal(t) == IF t \in {"1 of 1", "1 of 2"} THEN 1 ELSE 2
NVal(t) == IF t = "1 of 1" THEN 1 ELSE IF t \in {"1 of 2", "2 of 2"} THEN 2 ELSE 3

\* ----------------------------------------------------------- text helpers
safe_txt_mut_empty(val) == {}
safe_txt(val) == IF val = NullTxt THEN {} ELSE val

safe_str_mut_keep_null(val) == val
safe_str(val) == IF val = Null THEN "" ELSE val

is_made_mut_makes_only(txt) == "makes" \in txt
is_made(txt) == "makes" \in txt \/ (" made " \in txt /\ "missed" \notin txt)

is_missed(txt) == "misses" \in txt \/ "missed" \in txt

\* Python truthiness of a team value: None is falsy, a name is truthy.
truthy(team) == team # Null

\* ------------------------------------------------------------ the ordering
\* The sort key (period ascending, secondsRemaining descending, id ascending).
Before_mut_no_id(a, b) ==
    \/ a.period < b.period
    \/ a.period = b.period /\ a.secondsRemaining > b.secondsRemaining
Before(a, b) ==
    \/ a.period < b.period
    \/ a.period = b.period /\ a.secondsRemaining > b.secondsRemaining
    \/ a.period = b.period /\ a.secondsRemaining = b.secondsRemaining /\ a.id < b.id

\* Insert row x, which stood before every row of the sorted s, keeping ties in
\* their original order (a stable sort).
RECURSIVE InsertRow(_, _)
InsertRow(x, s) ==
    IF s = <<>> THEN <<x>>
    ELSE IF Before(Head(s), x) THEN <<Head(s)>> \o InsertRow(x, Tail(s))
    ELSE <<x>> \o s

RECURSIVE SortRows(_)
SortRows(s) == IF s = <<>> THEN <<>> ELSE InsertRow(Head(s), SortRows(Tail(s)))

\* game_df.sort_values([...]): each row keeps its index label (the field index).
sort_values(df) == SortRows(df)

\* game_df["team"].unique() without nulls, in order of first appearance.
RECURSIVE unique_teams(_, _)
unique_teams(df, seen) ==
    IF df = <<>> THEN <<>>
    ELSE IF Head(df).team = Null \/ Head(df).team \in seen
         THEN unique_teams(Tail(df), seen)
         ELSE <<Head(df).team>> \o unique_teams(Tail(df), seen \cup {Head(df).team})

RECURSIVE first_other(_, _)
first_other(ts, t) ==
    IF ts = <<>> THEN Null
    ELSE IF Head(ts) # t THEN Head(ts) ELSE first_other(Tail(ts), t)

other_team(ts, t) == first_other(ts, t)

\* ---------------------------------------------------------------- dicts
\* d.get(k, default) of a Python dict, modelled as a function on its keys.
dict_get_mut_default(d, k, default) == default
dict_get(d, k, default) == IF k \in DOMAIN d THEN d[k] ELSE default

\* The positions of the sorted frame that a mask on playType selects.
positions_of(s, pt) == {p \in 1..Len(s) : s[p].playType = pt}

pos_of_index(s, k) == CHOOSE p \in 1..Len(s) : s[p].index = k

same_clock_mut_period_only(a, b) == a.period = b.period
same_clock(a, b) == a.period = b.period /\ a.secondsRemaining = b.secondsRemaining

\* ---------------------------------------------------- last free-throw flags
m_of_n(txt) == txt \cap MofNTokens

last_ft_at(s, pos) ==
    LET txt == safe_txt(s[pos].playText)
    IN  IF m_of_n(txt) # {}
        THEN LET t == CHOOSE t \in m_of_n(txt) : TRUE IN MVal(t) = NVal(t)
        ELSE IF pos + 1 <= Len(s)
             THEN ~(same_clock(s[pos + 1], s[pos]) /\ s[pos + 1].playType = "MadeFreeThrow")
             ELSE TRUE

precompute_last_ft_flags(game_df) ==
    LET s == sort_values(game_df)
        ft == positions_of(s, "MadeFreeThrow")
    IN  [k \in {s[p].index : p \in ft} |-> last_ft_at(s, pos_of_index(s, k))]

\* ------------------------------------------------ technical free-throw flags
\* range(pos - 1, max(pos - 6, -1), -1): the stop offset of the backward scan.
TechScanStop == 6

Max(a, b) == IF a > b THEN a ELSE b

\* The scan from position back down to lo (1-based, both inclusive).
RECURSIVE tech_scan(_, _, _, _)
tech_scan(s, pos, back, lo) ==
    IF back < lo THEN FALSE
    ELSE LET prev == s[back] IN
         IF prev.period # s[pos].period THEN FALSE
         ELSE IF prev.secondsRemaining # s[pos].secondsRemaining THEN FALSE
         ELSE IF safe_str(prev.playType) \in TechnicalTypes THEN TRUE
         ELSE IF prev.playType \in {"MadeFreeThrow", "PersonalFoul"}
              THEN tech_scan(s, pos, back - 1, lo)
         ELSE FALSE

tech_ft_at_mut_never(s, pos) == FALSE
tech_ft_at(s, pos) == tech_scan(s, pos, pos - 1, Max(pos - TechScanStop, 0) + 1)

precompute_tech_ft_flags(game_df) ==
    LET s == sort_values(game_df)
        ft == positions_of(s, "MadeFreeThrow")
    IN  [k \in {s[p].index : p \in ft} |-> tech_ft_at(s, pos_of_index(s, k))]

\* ------------------------------------------------ dead-ball-rebound classes
\* range(pos - 1, max(pos - 10, -1), -1): the stop offset of the backward scan.
DbrScanStop == 10

RECURSIVE db_scan(_, _, _, _, _)
db_scan(s, pos, back, lo, last_ft_flags) ==
    IF back < lo THEN "end_possession"
    ELSE LET prev == s[back]
             prev_pt == safe_str(prev.playType)
             prev_txt == safe_txt(prev.playText)
         IN
         IF prev.period # s[pos].period THEN "end_possession"
         ELSE IF prev_pt \in {"Substitution", "Official TV Timeout", ""}
              THEN db_scan(s, pos, back - 1, lo, last_ft_flags)
         ELSE IF prev_pt = "MadeFreeThrow"
              THEN IF ~dict_get(last_ft_flags, prev.index, FALSE) THEN "mid_ft_sequence"
                   ELSE IF is_made(prev_txt) THEN "after_made_last_ft"
                   ELSE "end_possession"
         ELSE IF prev_pt \in FG_TYPES
              THEN IF is_missed(prev_txt)
                   THEN IF prev.team # Null /\ s[pos].team # Null /\ prev.team = s[pos].team
                        THEN "same_team_fg_miss"
                        ELSE "end_possession"
                   ELSE "end_possession"
         ELSE IF prev_pt \in TurnoverTypes \/ prev_pt = "PersonalFoul"
              THEN "end_possession"
         ELSE db_scan(s, pos, back - 1, lo, last_ft_flags)

db_class_at_mut_always_end(s, pos, last_ft_flags) == "end_possession"
db_class_at(s, pos, last_ft_flags) ==
    db_scan(s, pos, pos - 1, Max(pos - DbrScanStop, 0) + 1, last_ft_flags)

classify_dead_ball_rebounds(game_df, last_ft_flags) ==
    LET s == sort_values(game_df)
        db == positions_of(s, "Dead Ball Rebound")
    IN  [k \in {s[p].index : p \in db} |-> db_class_at(s, pos_of_index(s, k), last_ft_flags)]

\* ------------------------------------------------------------------ state
VARIABLES
    events,           \* the game's rows as they arrived (game_df), each with its index label
    pc,               \* "start" | "track" | "done"
    game_df,          \* track_possessions_v2's sorted copy of the rows
    teams,            \* the non-null teams in order of first appearance
    last_ft_flags,    \* dict: index label -> bool
    tech_ft_flags,    \* dict: index label -> bool
    db_reb_classes,   \* dict: index label -> category
    i,                \* rows of game_df the loop has consumed
    poss_id,
    poss_team,
    records,
    last_end_reason,
    last_end_team,
    possessions,      \* classify_possessions' result: <<"ok", rows>> or <<"raised", error>>
    and1_count,       \* history: and-one corrections performed so far
    plays_df,         \* run_pipeline: the day's games, each with its rows, in order of first row
    game_i,           \* run_pipeline: games the per-game loop has finished
    step,             \* run_pipeline and main: "idle" | "collect" | "process" | "four_factors"
                      \* | "concat" | "saved" | "returned" | "returned_none" | "raised"
                      \* | "exit_0" | "exit_1" | "exit_2"
    game_result,      \* run_pipeline: what process_single_game gave for the game in hand
    accum,            \* run_pipeline: per table, the per-game tables appended so far
    failed_games,     \* run_pipeline: the failures recorded so far
    ff_rows,          \* run_pipeline: the four-factors rows appended so far
    to_save,          \* run_pipeline: the concatenated tables
    games_df,         \* run_pipeline: the ids of the games get_games returned
    report            \* run_pipeline: check_completeness' report, its return value

pipeline_vars ==
    <<plays_df, game_i, step, game_result, accum, failed_games, ff_rows, to_save,
      games_df, report>>

vars == <<events, pc, game_df, teams, last_ft_flags, tech_ft_flags, db_reb_classes,
          i, poss_id, poss_team, records, last_end_reason, last_end_team,
          possessions, and1_count, pipeline_vars>>

\* ------------------------------------------------- the possession tracker
\* The and-one test of a non-technical MadeFreeThrow.
is_and1_mut_any_reason(team, p_team, l_reason, l_team) ==
    truthy(team) /\ p_team # Null /\ team # p_team /\ l_team = team
is_and1(team, p_team, l_reason, l_team) ==
    truthy(team) /\ p_team # Null /\ team # p_team /\ l_reason = "made_fg" /\ l_team = team

\* for rec in reversed(records): rewrite while rec carries old_id, stop at the first
\* that does not.
RECURSIVE rewrite_tail(_, _, _, _)
rewrite_tail(recs, old_id, new_id, new_team) ==
    IF recs = <<>> THEN <<>>
    ELSE LET n == Len(recs) IN
         IF recs[n].possession_id = old_id
         THEN rewrite_tail(SubSeq(recs, 1, n - 1), old_id, new_id, new_team)
              \o <<[recs[n] EXCEPT !.possession_id = new_id, !.possession_team = new_team]>>
         ELSE recs

rewrite_mut_last_only(recs, old_id, new_id, new_team) ==
    IF recs = <<>> THEN <<>>
    ELSE LET n == Len(recs) IN
         IF recs[n].possession_id = old_id
         THEN SubSeq(recs, 1, n - 1)
              \o <<[recs[n] EXCEPT !.possession_id = new_id, !.possession_team = new_team]>>
         ELSE recs
rewrite_mut_keep_team(recs, old_id, new_id, new_team) ==
    [k \in 1..Len(recs) |->
        IF recs[k].possession_id = old_id
        THEN [recs[k] EXCEPT !.possession_id = new_id] ELSE recs[k]]
rewrite(recs, old_id, new_id, new_team) == rewrite_tail(recs, old_id, new_id, new_team)

\* records.append({...})
emit_mut_skip_neutral(recs, rec) == IF rec.outcome = Null THEN recs ELSE Append(recs, rec)
emit(recs, rec) == Append(recs, rec)

\* One iteration of the loop over game_df, on the tracker state st
\* [poss_id, poss_team, records, last_end_reason, last_end_team]; the result also
\* tells whether the and-one correction ran (and1).
track_row(st, row, ts, lff, tff, dbc) ==
    LET pt == safe_str(row.playType)
        txt == safe_txt(row.playText)
        team == row.team
        is_ft == pt = "MadeFreeThrow"
        is_tech == is_ft /\ dict_get(tff, row.index, FALSE)
        and1 == is_ft /\ ~is_tech
                /\ is_and1(team, st.poss_team, st.last_end_reason, st.last_end_team)
        \* the state after the branch on pt, before the record is appended
        id1 == IF and1 THEN st.poss_id - 1 ELSE st.poss_id
        recs1 == IF and1 THEN rewrite(st.records, st.poss_id, st.poss_id - 1, team)
                 ELSE st.records
        reason1 == IF and1 THEN "and1_ft" ELSE st.last_end_reason
        team1 ==
            IF pt = "Jumpball"
            THEN IF "won" \in txt /\ truthy(team) /\ st.poss_team = Null
                 THEN team ELSE st.poss_team
            ELSE IF pt \in FG_TYPES
            THEN IF st.poss_team = Null THEN team ELSE st.poss_team
            ELSE IF is_ft
            THEN IF is_tech THEN st.poss_team
                 ELSE IF and1 THEN team
                 ELSE IF st.poss_team = Null /\ truthy(team) THEN team
                 ELSE st.poss_team
            ELSE IF pt \in TurnoverTypes
            THEN IF st.poss_team = Null /\ truthy(team) THEN team ELSE st.poss_team
            ELSE st.poss_team
        is_last == is_ft /\ ~is_tech /\ dict_get(lff, row.index, FALSE)
        db_class == dict_get(dbc, row.index, "end_possession")
        outcome ==
            IF pt = "Jumpball" THEN Null
            ELSE IF pt \in FG_TYPES THEN (IF is_made(txt) THEN "made_fg" ELSE Null)
            ELSE IF is_ft
            THEN IF is_tech THEN "tech_ft"
                 ELSE IF is_last THEN (IF is_made(txt) THEN "made_ft" ELSE "missed_last_ft")
                 ELSE Null
            ELSE IF pt \in TurnoverTypes THEN "turnover"
            ELSE IF pt = "Steal" THEN "steal"
            ELSE IF pt = "Defensive Rebound" THEN "def_rebound"
            ELSE IF pt = "Offensive Rebound" THEN "off_rebound"
            ELSE IF pt = "Dead Ball Rebound" THEN "dead_ball_rebound"
            ELSE IF pt \in {"End Period", "End Game"} THEN "end_period"
            ELSE Null
        end_poss ==
            IF pt \in FG_TYPES THEN is_made(txt)
            ELSE IF is_ft THEN is_last /\ is_made(txt)
            ELSE IF pt \in TurnoverTypes THEN TRUE
            ELSE IF pt = "Defensive Rebound" THEN TRUE
            ELSE IF pt = "Dead Ball Rebound" THEN db_class = "end_possession"
            ELSE IF pt \in {"End Period", "End Game"} THEN TRUE
            ELSE FALSE
        next_team ==
            IF pt \in FG_TYPES \/ is_ft \/ pt \in TurnoverTypes THEN other_team(ts, team1)
            ELSE IF pt \in {"Defensive Rebound", "Dead Ball Rebound"} THEN team
            ELSE Null
        rec == [play_id |-> row.id, possession_id |-> id1, possession_team |-> team1,
                play_type |-> pt, play_text |-> row.playText, team |-> team,
                outcome |-> outcome]
        keeps == pt \in {"PersonalFoul", "MadeFreeThrow", "Substitution",
                         "Official TV Timeout", ""}
    IN  [poss_id |-> IF end_poss THEN id1 + 1 ELSE id1,
         poss_team |-> IF end_poss THEN next_team ELSE team1,
         records |-> emit(recs1, rec),
         last_end_reason |-> IF end_poss THEN outcome
                             ELSE IF keeps THEN reason1 ELSE Null,
         last_end_team |-> IF end_poss THEN team1
                           ELSE IF keeps THEN st.last_end_team ELSE Null,
         and1 |-> and1]

\* The tracker's state before the loop.
initial_state ==
    [poss_id |-> 0, poss_team |-> Null, records |-> <<>>,
     last_end_reason |-> Null, last_end_team |-> Null, and1 |-> FALSE]

\* for idx, row in game_df.iterrows(): the loop from row k of the sorted frame on.
RECURSIVE track_rows(_, _, _, _, _, _, _)
track_rows(st, s, k, ts, lff, tff, dbc) ==
    IF k > Len(s) THEN st
    ELSE track_rows(track_row(st, s[k], ts, lff, tff, dbc), s, k + 1, ts, lff, tff, dbc)

\* track_possessions_v2(game_df) as a function of the frame: the record list.
track_possessions_v2(df) ==
    LET s == sort_values(df)
        lff == precompute_last_ft_flags(s)
    IN  track_rows(initial_state, s, 1, unique_teams(s, {}), lff,
                   precompute_tech_ft_flags(s), classify_dead_ball_rebounds(s, lff)).records

\* --------------------------------------------------- the possession classifier
PutbackMaxGap == 3
TransitionMaxGap == 7
FoulWindow == 10
LateClock == 120

\* possessions_df.merge(time_info, on="play_id", how="left").sort_values("play_order"):
\* each record with the clock, the period and the rank of its play in the sorted frame.
RECURSIVE by_play_order(_, _, _)
by_play_order(timed, p, n) ==
    IF p > n THEN <<>>
    ELSE SelectSeq(timed, LAMBDA r : r.play_order = p) \o by_play_order(timed, p + 1, n)

merge_time(recs, gs) ==
    LET order(r) == CHOOSE p \in 1..Len(gs) : gs[p].id = r.play_id
        timed == [k \in 1..Len(recs) |->
                    [play_id |-> recs[k].play_id, possession_id |-> recs[k].possession_id,
                     possession_team |-> recs[k].possession_team,
                     play_type |-> recs[k].play_type, play_text |-> recs[k].play_text,
                     team |-> recs[k].team, outcome |-> recs[k].outcome,
                     secondsRemaining |-> gs[order(recs[k])].secondsRemaining,
                     period |-> gs[order(recs[k])].period,
                     play_order |-> order(recs[k])]]
    IN  by_play_order(timed, 1, Len(gs))

group_of(poss, pid) == SelectSeq(poss, LAMBDA r : r.possession_id = pid)

last_outcome_mut_first(plays) ==
    LET ks == {k \in 1..Len(plays) : plays[k].outcome # Null}
    IN  IF ks = {} THEN Null ELSE plays[CHOOSE k \in ks : \A j \in ks : k <= j].outcome
RECURSIVE last_outcome(_)
last_outcome(plays) ==
    IF plays = <<>> THEN Null
    ELSE IF plays[Len(plays)].outcome # Null THEN plays[Len(plays)].outcome
    ELSE last_outcome(SubSeq(plays, 1, Len(plays) - 1))

\* The backward scan from the last def_rebound record for the rebounded miss.
RECURSIVE miss_scan(_, _, _)
miss_scan(plays, k, found_dreb) ==
    IF k < 1 THEN "fga"
    ELSE IF ~found_dreb
         THEN miss_scan(plays, k - 1, plays[k].outcome = "def_rebound")
    ELSE IF plays[k].play_type \in FG_TYPES THEN "fga"
    ELSE IF plays[k].play_type = "MadeFreeThrow" /\ is_missed(safe_txt(plays[k].play_text))
         THEN "fta"
    ELSE miss_scan(plays, k - 1, TRUE)

ReboundOutcomes == {"def_rebound", "off_rebound", "dead_ball_rebound"}

is_blocked_miss(p) ==
    /\ p.play_type \in FG_TYPES
    /\ "block" \in safe_txt(p.play_text)
    /\ is_missed(safe_txt(p.play_text))

\* The loop over plays stops at the first blocked miss, whatever it decides there.
block_oob_applies(plays, has_next) ==
    LET blocked == {k \in 1..Len(plays) : is_blocked_miss(plays[k])}
    IN  /\ blocked # {}
        /\ LET k == CHOOSE k \in blocked : \A j \in blocked : k <= j
               has_reb == \E j \in (k + 1)..Len(plays) : plays[j].outcome \in ReboundOutcomes
           IN  ~has_reb /\ has_next

\* The first position among hits, 0 when there is none.
first_in(hits) == IF hits = {} THEN 0 ELSE CHOOSE k \in hits : \A j \in hits : k <= j

possession_team_of(plays) == plays[1].possession_team

refined_of_mut_always_live(plays, final_outcome, has_next) ==
    IF final_outcome = "turnover" THEN "live_ball_turnover" ELSE final_outcome
refined_of(plays, final_outcome, has_next) ==
    LET has_steal == \E k \in 1..Len(plays) : plays[k].outcome = "steal"
        base == IF final_outcome = "turnover"
                THEN IF has_steal THEN "live_ball_turnover" ELSE "dead_ball_turnover"
                ELSE IF final_outcome = "def_rebound"
                THEN IF miss_scan(plays, Len(plays), FALSE) = "fga"
                     THEN "fga_def_rebound" ELSE "fta_def_rebound"
                ELSE final_outcome
    IN  IF block_oob_applies(plays, has_next) THEN "block_oob" ELSE base

possession_row(poss, pid) ==
    LET plays == group_of(poss, pid)
        start_sec == plays[1].secondsRemaining
        end_sec == plays[Len(plays)].secondsRemaining
        final_outcome == last_outcome(plays)
        has_oreb == \E k \in 1..Len(plays) : plays[k].outcome = "off_rebound"
        has_next == \E k \in 1..Len(poss) : poss[k].possession_id = pid + 1
        at == 1..Len(plays)
        first_fga == first_in({k \in at : plays[k].play_type \in FG_TYPES})
        time_to_first_fga ==
            IF first_fga = 0 THEN NoneNum ELSE start_sec - plays[first_fga].secondsRemaining
        first_oreb == first_in({k \in at : plays[k].outcome = "off_rebound"})
        oreb_sec == plays[first_oreb].secondsRemaining
        post_oreb == IF first_oreb = 0 THEN 0
                     ELSE first_in({k \in at : /\ plays[k].play_type \in FG_TYPES
                                                /\ plays[k].secondsRemaining < oreb_sec})
        time_oreb_to_fga ==
            IF post_oreb = 0 THEN NoneNum ELSE oreb_sec - plays[post_oreb].secondsRemaining
        first_foul == first_in({k \in at : /\ plays[k].play_type \in FoulTypes
                                           /\ "shooting" \notin safe_txt(plays[k].play_text)})
        foul_within_10s ==
            first_foul # 0 /\ start_sec - plays[first_foul].secondsRemaining <= FoulWindow
        poss_type ==
            IF has_oreb
            THEN IF time_oreb_to_fga # NoneNum /\ time_oreb_to_fga <= PutbackMaxGap
                 THEN "scramble_putback" ELSE "second_chance"
            ELSE IF first_foul # 0 /\ foul_within_10s /\ first_fga = 0 /\ start_sec <= LateClock
            THEN "intentional_foul"
            ELSE IF time_to_first_fga # NoneNum
            THEN IF time_to_first_fga <= TransitionMaxGap THEN "transition" ELSE "half_court"
            ELSE "half_court"
    IN  [possession_id |-> pid,
         possession_team |-> possession_team_of(plays),
         period |-> plays[1].period,
         start_seconds |-> start_sec,
         end_seconds |-> end_sec,
         duration_sec |-> start_sec - end_sec,
         raw_outcome |-> final_outcome,
         refined_outcome |-> refined_of(plays, final_outcome, has_next),
         possession_type |-> poss_type,
         has_oreb |-> has_oreb,
         time_to_first_fga |-> time_to_first_fga,
         time_oreb_to_fga |-> time_oreb_to_fga]

\* sorted(poss["possession_id"].unique()) as a sequence.
RECURSIVE sorted_ids(_)
sorted_ids(S) ==
    IF S = {} THEN <<>>
    ELSE LET m == CHOOSE x \in S : \A y \in S : x <= y IN <<m>> \o sorted_ids(S \ {m})

\* result[result["raw_outcome"] != "end_period"]
drop_end_period_mut_keep(rows) == rows
drop_end_period(rows) == SelectSeq(rows, LAMBDA r : r.raw_outcome # "end_period")

\* The row pandas makes when a one-element list is assigned as a column of a
\* frame with no rows: the frame is reindexed to the list's index, every other
\* column NaN.
nan_row ==
    [possession_id |-> NoneNum, possession_team |-> Null, period |-> NoneNum,
     start_seconds |-> NoneNum, end_seconds |-> NoneNum, duration_sec |-> NoneNum,
     raw_outcome |-> Null, refined_outcome |-> Null, possession_type |-> Null,
     has_oreb |-> Null, time_to_first_fga |-> NoneNum, time_oreb_to_fga |-> NoneNum,
     prev_poss_ender |-> "start_of_period"]

with_prev(r, ender) ==
    [possession_id |-> r.possession_id, possession_team |-> r.possession_team,
     period |-> r.period, start_seconds |-> r.start_seconds,
     end_seconds |-> r.end_seconds, duration_sec |-> r.duration_sec,
     raw_outcome |-> r.raw_outcome, refined_outcome |-> r.refined_outcome,
     possession_type |-> r.possession_type, has_oreb |-> r.has_oreb,
     time_to_first_fga |-> r.time_to_first_fga, time_oreb_to_fga |-> r.time_oreb_to_fga,
     prev_poss_ender |-> ender]

\* prev_enders = ["start_of_period"], then one entry per row from the second on;
\* result["prev_poss_ender"] = prev_enders.
back_fill_mut_no_period(result) ==
    IF result = <<>> THEN <<nan_row>>
    ELSE [k \in 1..Len(result) |->
            with_prev(result[k],
                IF k = 1 THEN "start_of_period" ELSE result[k - 1].refined_outcome)]
back_fill(result) ==
    IF result = <<>> THEN <<nan_row>>
    ELSE [k \in 1..Len(result) |->
            with_prev(result[k],
                IF k = 1 THEN "start_of_period"
                ELSE IF result[k].period # result[k - 1].period THEN "start_of_period"
                ELSE result[k - 1].refined_outcome)]

\* classify_possessions(possessions_df, game_df): the table, or the exception of
\* merging a frame that has no play_id column (no record at all).
classify_possessions(possessions_df, gdf) ==
    IF possessions_df = <<>> THEN [status |-> "raised", rows |-> <<>>]
    ELSE LET gs == sort_values(gdf)
             poss == merge_time(possessions_df, gs)
             pids == sorted_ids({poss[k].possession_id : k \in 1..Len(poss)})
             possession_rows == [k \in 1..Len(pids) |-> possession_row(poss, pids[k])]
         IN  [status |-> "ok", rows |-> back_fill(drop_end_period(possession_rows))]

\* ------------------------------------- fix_possessions.py, the offline pipeline
\* fix_possessions.track_possessions_v2 and the helpers it calls are, statement
\* for statement, those of daily_fetch.py.
fix_track_possessions_v2(df) == track_possessions_v2(df)

\* The loop over plays goes on past a blocked miss that was rebounded and stops
\* at the first one that was not.
fix_block_oob_applies(plays, has_next) ==
    /\ \E k \in 1..Len(plays) :
          /\ is_blocked_miss(plays[k])
          /\ \A j \in (k + 1)..Len(plays) : plays[j].outcome \notin ReboundOutcomes
    /\ has_next

fix_refined_of(plays, final_outcome, has_next) ==
    LET has_steal == \E k \in 1..Len(plays) : plays[k].outcome = "steal"
        base == IF final_outcome = "turnover"
                THEN IF has_steal THEN "live_ball_turnover" ELSE "dead_ball_turnover"
                ELSE IF final_outcome = "def_rebound"
                THEN IF miss_scan(plays, Len(plays), FALSE) = "fga"
                     THEN "fga_def_rebound" ELSE "fta_def_rebound"
                ELSE final_outcome
    IN  IF fix_block_oob_applies(plays, has_next) THEN "block_oob" ELSE base

\* The row of a possession: every column but refined_outcome is computed by the
\* same statements as in daily_fetch.py.
fix_possession_row(poss, pid) ==
    LET plays == group_of(poss, pid)
        has_next == \E k \in 1..Len(poss) : poss[k].possession_id = pid + 1
    IN  [possession_row(poss, pid) EXCEPT
            !.refined_outcome = fix_refined_of(plays, last_outcome(plays), has_next)]

\* prev_enders over all rows, then the end_period filter.
fix_back_fill(result) ==
    [k \in 1..Len(result) |->
        with_prev(result[k],
            IF k = 1 THEN "start_of_period"
            ELSE IF result[k].period # result[k - 1].period THEN "start_of_period"
            ELSE result[k - 1].refined_outcome)]

fix_classify_possessions(possessions_df, gdf) ==
    IF possessions_df = <<>> THEN [status |-> "raised", rows |-> <<>>]
    ELSE LET gs == sort_values(gdf)
             poss == merge_time(possessions_df, gs)
             pids == sorted_ids({poss[k].possession_id : k \in 1..Len(poss)})
             possession_rows == [k \in 1..Len(pids) |-> fix_possession_row(poss, pids[k])]
         IN  [status |-> "ok", rows |-> drop_end_period(fix_back_fill(possession_rows))]

\* ------------------------------------------------------------- event logs
Ev(pt, txt, team) == [playType |-> pt, playText |-> txt, team |-> team]

\* The clock a log starts at; every later event is at the same or a lower clock.
StartClock == 20

\* The events of the general family: every play type the tracker tells apart.
GeneralKinds ==
    { Ev("Jumpball", {"won"}, "B"),
      Ev("JumpShot", {"makes"}, "A"),
      Ev("JumpShot", {"makes"}, "B"),
      Ev("JumpShot", {"misses"}, "A"),
      Ev("LayUpShot", {"misses", "block"}, "A"),
      Ev("MadeFreeThrow", {"makes", "1 of 1"}, "A"),
      Ev("MadeFreeThrow", {"makes", "1 of 2"}, "A"),
      Ev("MadeFreeThrow", {"misses", "2 of 2"}, "A"),
      Ev("MadeFreeThrow", {" made "}, "B"),
      Ev("Lost Ball Turnover", {}, "A"),
      Ev("Steal", {}, "B"),
      Ev("Defensive Rebound", {}, "B"),
      Ev("Offensive Rebound", {}, "A"),
      Ev("Dead Ball Rebound", {}, "A"),
      Ev("End Period", {}, Null),
      Ev("TechnicalFoul", {}, "B"),
      Ev("PersonalFoul", {}, "B"),
      Ev("Substitution", {}, "A"),
      Ev(Null, NullTxt, Null) }

\* Made field goals, fouls and free throws: the and-one correction.
AndOneKinds ==
    { Ev("Jumpball", {"won"}, "B"),
      Ev("JumpShot", {"makes"}, "A"),
      Ev("JumpShot", {"makes"}, "B"),
      Ev("PersonalFoul", {"shooting"}, "B"),
      Ev("MadeFreeThrow", {"makes", "1 of 1"}, "A"),
      Ev("MadeFreeThrow", {"makes", "1 of 2"}, "A"),
      Ev("MadeFreeThrow", {"makes", "1 of 1"}, "B"),
      Ev("Substitution", {}, "A") }

\* Technical fouls and the free throws around them.
TechKinds ==
    { Ev("TechnicalFoul", {}, "B"),
      Ev("MadeFreeThrow", {"makes", "2 of 2"}, "A"),
      Ev("MadeFreeThrow", {"makes", "1 of 2"}, "A"),
      Ev("PersonalFoul", {}, "B"),
      Ev("JumpShot", {"makes"}, "A"),
      Ev("Substitution", {}, "A") }

\* Misses and the dead-ball rebounds after them.
DeadBallKinds ==
    { Ev("JumpShot", {"misses"}, "A"),
      Ev("TipShot", {"missed"}, "B"),
      Ev("Dead Ball Rebound", {}, "A"),
      Ev("Dead Ball Rebound", {}, Null),
      Ev("MadeFreeThrow", {"misses", "2 of 2"}, "B"),
      Ev("Official TV Timeout", {}, Null) }

\* Period boundaries.
PeriodKinds ==
    { Ev("End Period", {}, Null),
      Ev("End Game", {}, Null),
      Ev("DunkShot", {" made "}, "A"),
      Ev("JumpShot", {"misses"}, "B"),
      Ev("Defensive Rebound", {}, "A"),
      Ev("Substitution", {}, "B") }

\* Blocked shots, the rebounds after them and what ends the possession.
BlockKinds ==
    { Ev("LayUpShot", {"misses", "block"}, "A"),
      Ev("Offensive Rebound", {}, "A"),
      Ev("Lost Ball Turnover", {}, "A"),
      Ev("Defensive Rebound", {}, "B") }

\* Shots, rebounds and fouls whose distance in seconds matters.
TimingKinds ==
    { Ev("JumpShot", {"misses"}, "A"),
      Ev("Offensive Rebound", {}, "A"),
      Ev("PersonalFoul", {}, "B"),
      Ev("PersonalFoul", {"shooting"}, "B"),
      Ev("Lost Ball Turnover", {}, "A"),
      Ev("Substitution", {}, "A") }

\* Clock readings around the two-minute mark, from 3 to 25 seconds apart.
TimingClocks == {130, 127, 123, 120, 116, 105}

\* How an event's clock follows from the one before it.
Deltas == {"same", "tick", "period"}

period_at(deltas, k) == 1 + Cardinality({j \in 2..k : deltas[j] = "period"})

seconds_at(deltas, k) ==
    LET starts == {j \in 2..k : deltas[j] = "period"}
        from == IF starts = {} THEN 1 ELSE CHOOSE j \in starts : \A h \in starts : h <= j
    IN  StartClock - Cardinality({j \in (from + 1)..k : deltas[j] = "tick"})

\* The log with the given kinds and clocks; ids rise in game order; the rows
\* arrive in game order or, when rev, in the opposite order.
make_log(kinds, deltas, rev) ==
    LET n == Len(kinds)
        at(k) == IF rev THEN n + 1 - k ELSE k
    IN  [k \in 1..n |->
            [index |-> k, id |-> at(k), period |-> period_at(deltas, at(k)),
             secondsRemaining |-> seconds_at(deltas, at(k)),
             playType |-> kinds[at(k)].playType, playText |-> kinds[at(k)].playText,
             team |-> kinds[at(k)].team]]

\* events is some log of at most maxlen events of the given kinds and clock
\* steps, arriving in one of the given orders.
LogOf(kinds, ds, maxlen, revs) ==
    \E n \in 0..maxlen : \E ks \in [1..n -> kinds], d \in [2..n -> ds], rev \in revs :
        events = make_log(ks, d, rev)

\* The general family arrives in game order or reversed; the narrow families,
\* which are longer, always arrive reversed, so that the sort has work to do.
\* The events the dead-ball-rebound scan passes over.
MarkerKinds ==
    { Ev("Substitution", {}, "A"),
      Ev("Official TV Timeout", {}, Null),
      Ev(Null, NullTxt, Null) }

\* A missed shot, up to MaxMarkers markers of one kind, and the shooter's team's
\* dead-ball rebound, the clock running down from event to event.
ScanLog ==
    \E k \in 0..MaxMarkers : \E m \in MarkerKinds :
        events = make_log(<<Ev("JumpShot", {"misses"}, "A")>>
                            \o [j \in 1..k |-> m]
                            \o <<Ev("Dead Ball Rebound", {}, "A")>>,
                          [j \in 2..(k + 2) |-> "tick"], TRUE)

\* A log of one period of at most maxlen timing events, each at one of the
\* clock readings, the clock never rising; the rows arrive reversed.
TimedLog(maxlen) ==
    \E n \in 1..maxlen : \E ks \in [1..n -> TimingKinds], cs \in [1..n -> TimingClocks] :
        /\ \A j \in 1..(n - 1) : cs[j] >= cs[j + 1]
        /\ events = [k \in 1..n |->
                        [index |-> k, id |-> n + 1 - k, period |-> 1,
                         secondsRemaining |-> cs[n + 1 - k],
                         playType |-> ks[n + 1 - k].playType,
                         playText |-> ks[n + 1 - k].playText,
                         team |-> ks[n + 1 - k].team]]

InputLog ==
    \/ ScanLog
    \/ TimedLog(MaxLen + 1)
    \/ LogOf(GeneralKinds, Deltas, MaxLen, BOOLEAN)
    \/ LogOf(AndOneKinds, {"tick"}, MaxLen + 2, {TRUE})
    \/ LogOf(TechKinds, {"same", "tick"}, MaxLen + 2, {TRUE})
    \/ LogOf(DeadBallKinds, {"tick", "period"}, MaxLen + 2, {TRUE})
    \/ LogOf(PeriodKinds, {"tick", "period"}, MaxLen + 2, {TRUE})
    \/ LogOf(BlockKinds, {"tick"}, MaxLen + 3, {TRUE})

\* ---------------------------------------------------------------- actions
NoResult == [status |-> "none", rows |-> <<>>]

\* The tables run_pipeline accumulates, none appended to yet.
TableNames ==
    {"possessions_df", "poss_enriched", "shots_df", "lineup_stints_df", "players_df",
     "pbp_flat"}

NoTables == [t \in TableNames |-> <<>>]

NoGame == [status |-> "none", error |-> Null, tables |-> NoTables]

\* No completeness report yet.
NoReport ==
    [expected_count |-> 0, pbp_fetched_count |-> 0, processed_count |-> 0,
     failed_count |-> 0, missing_pbp |-> <<>>, failed_analysis |-> <<>>,
     is_complete |-> Null]

\* run_pipeline is not running.
PipelineIdle ==
    /\ plays_df = <<>>
    /\ game_i = 0
    /\ step = "idle"
    /\ game_result = NoGame
    /\ accum = NoTables
    /\ failed_games = <<>>
    /\ ff_rows = <<>>
    /\ to_save = NoTables
    /\ games_df = <<>>
    /\ report = NoReport

Init ==
    /\ InputLog
    /\ pc = "start"
    /\ game_df = <<>>
    /\ teams = <<>>
    /\ last_ft_flags = <<>>
    /\ tech_ft_flags = <<>>
    /\ db_reb_classes = <<>>
    /\ i = 0
    /\ poss_id = 0
    /\ poss_team = Null
    /\ records = <<>>
    /\ last_end_reason = Null
    /\ last_end_team = Null
    /\ possessions = NoResult
    /\ and1_count = 0
    /\ PipelineIdle

\* track_possessions_v2 up to its loop: the sort, the teams, the three side tables.
Start ==
    /\ pc = "start"
    /\ game_df' = sort_values(events)
    /\ teams' = unique_teams(game_df', {})
    /\ last_ft_flags' = precompute_last_ft_flags(game_df')
    /\ tech_ft_flags' = precompute_tech_ft_flags(game_df')
    /\ db_reb_classes' = classify_dead_ball_rebounds(game_df', last_ft_flags')
    /\ poss_id' = 0
    /\ poss_team' = Null
    /\ records' = <<>>
    /\ last_end_reason' = Null
    /\ last_end_team' = Null
    /\ i' = 0
    /\ pc' = "track"
    /\ UNCHANGED <<events, possessions, and1_count, pipeline_vars>>

tracker_state ==
    [poss_id |-> poss_id, poss_team |-> poss_team, records |-> records,
     last_end_reason |-> last_end_reason, last_end_team |-> last_end_team]

\* One iteration of the loop over the sorted rows.
TrackRow ==
    /\ pc = "track"
    /\ i < Len(game_df)
    /\ LET st == track_row(tracker_state, game_df[i + 1], teams,
                           last_ft_flags, tech_ft_flags, db_reb_classes)
       IN  /\ poss_id' = st.poss_id
           /\ poss_team' = st.poss_team
           /\ records' = st.records
           /\ last_end_reason' = st.last_end_reason
           /\ last_end_team' = st.last_end_team
           /\ and1_count' = IF st.and1 THEN and1_count + 1 ELSE and1_count
    /\ i' = i + 1
    /\ UNCHANGED <<events, pc, game_df, teams, last_ft_flags, tech_ft_flags,
                   db_reb_classes, possessions, pipeline_vars>>

\* The loop is over: track_possessions_v2 returns its records and
\* classify_possessions builds the summary from them and the game's rows.
Classify ==
    /\ pc = "track"
    /\ i = Len(game_df)
    /\ possessions' = classify_possessions(records, events)
    /\ pc' = "done"
    /\ UNCHANGED <<events, game_df, teams, last_ft_flags, tech_ft_flags, db_reb_classes,
                   i, poss_id, poss_team, records, last_end_reason, last_end_team,
                   and1_count, pipeline_vars>>

Next == Start \/ TrackRow \/ Classify

Spec == Init /\ [][Next]_vars

\* ------------------------------------------------------------ four factors
\* A playText that is neither null nor a string (a number, say).
NotStr == {"<not a string>"}

\* Series.fillna("").str.lower(): null becomes "", a value that is not a string
\* becomes NaN.
str_lower(val) == IF val = NullTxt THEN {} ELSE IF val = NotStr THEN NullTxt ELSE val

\* game_df[game_df["team"] == team]
team_plays(df, team) == SelectSeq(df, LAMBDA r : r.team = team)

\* tp[tp["playType"].isin(types)]
of_types(tp, types) == SelectSeq(tp, LAMBDA r : r.playType \in types)

\* The .str accessor of a column raises AttributeError when the column holds
\* values and none of them is a string.
str_accessor_raises(texts) ==
    /\ \E k \in 1..Len(texts) : texts[k] = NotStr
    /\ \A k \in 1..Len(texts) : texts[k] \in {NotStr, NullTxt}

\* Series.fillna("")
fillna(texts) == [k \in 1..Len(texts) |-> IF texts[k] = NullTxt THEN {} ELSE texts[k]]

\* The playText column of a frame.
play_texts(df) == [k \in 1..Len(df) |-> df[k].playText]

\* The exception of computing the made mask of some rows, Null when there is
\* none: .str raises AttributeError; otherwise a text that is not a string is
\* NaN after str.lower() and str.contains(), and ~ of a mask that holds NaN
\* raises TypeError.
text_error(rows) ==
    LET txt == fillna(play_texts(rows))
    IN  IF str_accessor_raises(txt) THEN "AttributeError"
        ELSE IF \E k \in 1..Len(txt) : txt[k] = NotStr THEN "TypeError"
        ELSE Null

\* The exception of one team's pass: its field goals come before its free throws.
team_error(df, team) ==
    LET fg_error == text_error(of_types(team_plays(df, team), FG_TYPES))
    IN  IF fg_error # Null THEN fg_error
        ELSE text_error(of_types(team_plays(df, team), {"MadeFreeThrow"}))

made_count(rows) ==
    Cardinality({k \in 1..Len(rows) : is_made(str_lower(rows[k].playText))})

three_count(rows) ==
    Cardinality({k \in 1..Len(rows) : "three point" \in str_lower(rows[k].playText)})

three_made_count(rows) ==
    Cardinality({k \in 1..Len(rows) :
                   /\ "three point" \in str_lower(rows[k].playText)
                   /\ is_made(str_lower(rows[k].playText))})

\* round(base + 0.475 * fta, 1) in tenths, base an integer.  The exact value is
\* (1000 * base + 475 * fta) / 1000; it sits halfway between two tenths when
\* fta = 2 (mod 4), and then the float nearest to it decides: for fta = 2 that
\* float is below the halfway point when base is -2..1 and above it otherwise
\* (a game here has fewer than 6 free throws).
round_tenths(base, fta) ==
    LET x == 1000 * base + 475 * fta
        q == x \div 100
        r == x % 100
    IN  IF r > 50 THEN q + 1
        ELSE IF r < 50 THEN q
        ELSE IF base \in -2..1 THEN q ELSE q + 1

possessions_estimate_mut_no_tov(fga, orb, tov, fta) == round_tenths(fga - orb, fta)
\* possessions = fga - orb + tov + 0.475 * fta, rounded to one decimal, in tenths.
possessions_estimate(fga, orb, tov, fta) == round_tenths(fga - orb + tov, fta)

\* One team's entry of compute_four_factors' result (the counts and the
\* possession estimate; the rates derived from them are left out).
team_stats(df, ts, team) ==
    LET tp == team_plays(df, team)
        opp == first_other(ts, team)
        opp_plays == IF opp = Null THEN <<>> ELSE team_plays(df, opp)
        fg == of_types(tp, FG_TYPES)
        ft == of_types(tp, {"MadeFreeThrow"})
        fga == Len(fg)
        fta == Len(ft)
        tov == Len(of_types(tp, TurnoverTypes))
        orb == Len(of_types(tp, {"Offensive Rebound"}))
    IN  [team |-> team, FGA |-> fga, FGM |-> made_count(fg),
         TPA |-> three_count(fg), TPM |-> three_made_count(fg),
         FTA |-> fta, FTM |-> made_count(ft), TOV |-> tov, ORB |-> orb,
         DRB |-> Len(of_types(tp, {"Defensive Rebound"})),
         Opp_DRB |-> Len(of_types(opp_plays, {"Defensive Rebound"})),
         Possessions |-> possessions_estimate(fga, orb, tov, fta)]

\* compute_four_factors(game_df): one entry per team in order of first
\* appearance, or the exception of the first team whose pass raises.
compute_four_factors(df) ==
    LET ts == unique_teams(df, {})
        bad == {k \in 1..Len(ts) : team_error(df, ts[k]) # Null}
    IN  IF bad # {}
        THEN [status |-> "raised", stats |-> <<>>,
              error |-> team_error(df, ts[CHOOSE k \in bad : \A j \in bad : k <= j])]
        ELSE [status |-> "ok", error |-> Null,
              stats |-> [k \in 1..Len(ts) |-> team_stats(df, ts, ts[k])]]

\* ------------------------------------------------------------ the pipeline
\* str(e) of a failure: the message, the game id when the message names it, the
\* number of teams found when the message gives it.
Failure(msg, gid, found) == [msg |-> msg, gameId |-> gid, found |-> found]

\* if len(teams) < 2: raise ValueError(...)
too_few_teams_mut_one(ts) == Len(ts) < 1
too_few_teams(ts) == Len(ts) < 2

\* process_single_game: the six tables of a game, or the exception it raises.
\* The roster comes from the provider: fetch_game_roster returns the players or
\* raises.  The logs have no substitution, so the lineups never change and the
\* game is one stint.
process_single_game(game) ==
    LET gdf == game.rows
        ts == unique_teams(gdf, {})
        possessions_df == track_possessions_v2(gdf)
        poss_enriched == classify_possessions(possessions_df, gdf)
        shots_df == SelectSeq(gdf, LAMBDA r : r.shootingPlay)
    IN  IF too_few_teams(ts)
        THEN [status |-> "raised", tables |-> NoTables,
              error |-> Failure("found teams, need 2", game.gameId, Len(ts))]
        ELSE IF game.roster = <<>>
        THEN [status |-> "raised", tables |-> NoTables,
              error |-> Failure("ApiException", Null, NoneNum)]
        ELSE IF str_accessor_raises(play_texts(shots_df))
        THEN [status |-> "raised", tables |-> NoTables,
              error |-> Failure("AttributeError", Null, NoneNum)]
        ELSE IF poss_enriched.status = "raised"
        THEN [status |-> "raised", tables |-> NoTables,
              error |-> Failure("KeyError", Null, NoneNum)]
        ELSE [status |-> "ok", error |-> Null,
              tables |->
                [t \in TableNames |->
                    IF t = "possessions_df" THEN possessions_df
                    ELSE IF t = "poss_enriched" THEN poss_enriched.rows
                    ELSE IF t = "shots_df" THEN shots_df
                    ELSE IF t = "lineup_stints_df" THEN <<[stint |-> 1]>>
                    ELSE IF t = "players_df" THEN game.roster
                    ELSE gdf]]

\* A play of a pipeline game.
PEv(pt, txt, team, shooting) ==
    [playType |-> pt, playText |-> txt, team |-> team, shootingPlay |-> shooting]

GameKinds ==
    { PEv("JumpShot", {"makes"}, "A", TRUE),
      PEv("JumpShot", {"misses", "three point"}, "A", TRUE),
      PEv("JumpShot", NotStr, "B", TRUE),
      PEv("MadeFreeThrow", {"misses", "1 of 1"}, "A", TRUE),
      PEv("Offensive Rebound", {}, "A", FALSE),
      PEv("Defensive Rebound", {}, "B", FALSE),
      PEv("Lost Ball Turnover", {}, "B", FALSE),
      PEv("End Period", {}, Null, FALSE),
      PEv(Null, NullTxt, "B", FALSE) }

\* Longest log of the pipeline's first kind of game.
MaxGameLen == 3

\* The rows of one game in plays_df: in game order, one tick of the clock
\* between two plays, labels running on from the rows before.
game_rows(kinds, gid, before) ==
    [k \in 1..Len(kinds) |->
        [index |-> before + k, id |-> 10 * gid + k, gameId |-> gid, period |-> 1,
         secondsRemaining |-> StartClock - (k - 1),
         playType |-> kinds[k].playType, playText |-> kinds[k].playText,
         team |-> kinds[k].team, shootingPlay |-> kinds[k].shootingPlay]]

\* What the provider may return as a game's roster: nothing (the fetch raises)
\* or its players.
Players == <<[name |-> "p1"], [name |-> "p2"]>>

Rosters == {<<>>, Players}

\* The other game of the day, when there is one: a sound game, a game of one
\* team, a game with a text that is not a string.
SiblingGames ==
    { <<PEv("JumpShot", {"makes"}, "A", TRUE), PEv("Lost Ball Turnover", {}, "B", FALSE)>>,
      <<PEv("JumpShot", {"makes"}, "A", TRUE)>>,
      <<PEv("JumpShot", NotStr, "B", TRUE), PEv("JumpShot", {"makes"}, "A", TRUE)>> }

Game(kinds, gid, before, roster) ==
    [gameId |-> gid, rows |-> game_rows(kinds, gid, before), roster |-> roster]

\* plays_df grouped by gameId in order of first appearance: one or two games,
\* or no play at all when no fetch gave any.
InputGames ==
    \/ plays_df = <<>>
    \/ \E n \in 1..MaxGameLen : \E ks \in [1..n -> GameKinds], roster \in Rosters :
        \/ plays_df = <<Game(ks, 1, 0, roster)>>
        \/ \E sib \in SiblingGames :
            \/ plays_df = <<Game(ks, 1, 0, roster), Game(sib, 2, n, Players)>>
            \/ plays_df = <<Game(sib, 2, 0, Players), Game(ks, 1, Len(sib), roster)>>

\* Series.astype(str) / str(...) of a game id.
IdStrings == <<"1", "2", "3">>

as_str(id) == IdStrings[id]

\* set(column.astype(str).tolist()), the empty set for an empty frame.
id_strings(ids) == {as_str(ids[k]) : k \in 1..Len(ids)}

\* sorted(...) of a set of id strings (the ids here have one digit, so the
\* order of the strings is the order of the numbers).
RECURSIVE sorted_strings(_, _)
sorted_strings(S, id) ==
    IF id > Len(IdStrings) THEN <<>>
    ELSE (IF as_str(id) \in S THEN <<as_str(id)>> ELSE <<>>) \o sorted_strings(S, id + 1)

\* get_games returned the games that have plays and perhaps one more, whose
\* plays could not be fetched; the fetch loop walks games_df, so the games of
\* plays_df come in its order.
MissingGameId == Len(IdStrings)

ExpectedGames ==
    \/ games_df = [k \in 1..Len(plays_df) |-> plays_df[k].gameId]
    \/ games_df = [k \in 1..Len(plays_df) |-> plays_df[k].gameId] \o <<MissingGameId>>
    \/ games_df = <<MissingGameId>> \o [k \in 1..Len(plays_df) |-> plays_df[k].gameId]

TrackerIdle ==
    /\ events = <<>>
    /\ pc = "idle"
    /\ game_df = <<>>
    /\ teams = <<>>
    /\ last_ft_flags = <<>>
    /\ tech_ft_flags = <<>>
    /\ db_reb_classes = <<>>
    /\ i = 0
    /\ poss_id = 0
    /\ poss_team = Null
    /\ records = <<>>
    /\ last_end_reason = Null
    /\ last_end_team = Null
    /\ possessions = NoResult
    /\ and1_count = 0

tracker_vars ==
    <<events, pc, game_df, teams, last_ft_flags, tech_ft_flags, db_reb_classes,
      i, poss_id, poss_team, records, last_end_reason, last_end_team,
      possessions, and1_count>>

\* run_pipeline after get_games and the fetch of the plays.
PipelineInit ==
    /\ InputGames
    /\ game_i = 0
    /\ step = "collect"
    /\ game_result = NoGame
    /\ accum = NoTables
    /\ failed_games = <<>>
    /\ ff_rows = <<>>
    /\ to_save = NoTables
    /\ ExpectedGames
    /\ report = NoReport
    /\ TrackerIdle

\* Between the fetches and the per-game loop: with no game run_pipeline
\* returns None; plays_df["gameId"] raises KeyError when the frame of plays has
\* no row, hence no column, and nothing in run_pipeline or main catches it.
CollectPlays ==
    /\ step = "collect"
    /\ step' = IF games_df = <<>> THEN "returned_none"
               ELSE IF plays_df = <<>> THEN "raised"
               ELSE "process"
    /\ UNCHANGED <<plays_df, game_i, game_result, accum, failed_games, ff_rows, to_save,
                   games_df, report, tracker_vars>>

\* The step after a game is finished: the next game, or the concatenation.
after_game == IF game_i + 1 < Len(plays_df) THEN "process" ELSE "concat"

\* The first half of the try body: process_single_game and the six appends; an
\* exception goes to the handler, which records the failure.
ProcessGame ==
    /\ step = "process"
    /\ game_i < Len(plays_df)
    /\ LET game == plays_df[game_i + 1]
           res == process_single_game(game)
       IN  IF res.status = "ok"
           THEN /\ accum' = [t \in TableNames |->
                               Append(accum[t], [gameId |-> game.gameId,
                                                 rows |-> res.tables[t]])]
                /\ game_result' = res
                /\ step' = "four_factors"
                /\ UNCHANGED <<game_i, failed_games>>
           ELSE /\ failed_games' = Append(failed_games,
                                          [gameId |-> game.gameId, error |-> res.error])
                /\ game_i' = game_i + 1
                /\ step' = after_game
                /\ UNCHANGED <<accum, game_result>>
    /\ UNCHANGED <<plays_df, ff_rows, to_save, games_df, report, tracker_vars>>

\* The second half of the try body: compute_four_factors and one row per team,
\* each with its opponent ([t for t in teams if t != team][0] raises IndexError
\* when there is no other team); an exception goes to the same handler.
FourFactors ==
    /\ step = "four_factors"
    /\ LET game == plays_df[game_i + 1]
           ts == unique_teams(game.rows, {})
           ff == compute_four_factors(game.rows)
       IN  IF ff.status = "ok" /\ Len(ts) # 1
           THEN /\ ff_rows' = ff_rows \o
                       [k \in 1..Len(ff.stats) |->
                           [game_id |-> game.gameId, team |-> ff.stats[k].team,
                            opponent |-> first_other(ts, ff.stats[k].team),
                            stats |-> ff.stats[k]]]
                /\ UNCHANGED failed_games
           ELSE /\ failed_games' =
                       Append(failed_games,
                              [gameId |-> game.gameId,
                               error |-> Failure(IF ff.status = "ok" THEN "IndexError"
                                                 ELSE ff.error, Null, NoneNum)])
                /\ UNCHANGED ff_rows
    /\ game_i' = game_i + 1
    /\ step' = after_game
    /\ game_result' = NoGame
    /\ UNCHANGED <<plays_df, accum, to_save, games_df, report, tracker_vars>>

\* pd.concat(accum[key], ignore_index=True): the rows of the per-game tables,
\* each with its game.
RECURSIVE concat(_)
concat(tables) ==
    IF tables = <<>> THEN <<>>
    ELSE [k \in 1..Len(Head(tables).rows) |->
             [gameId |-> Head(tables).gameId, row |-> Head(tables).rows[k]]]
         \o concat(Tail(tables))

\* After the loop: the concatenated tables.
Concat ==
    /\ step = "concat"
    /\ to_save' = [t \in TableNames |-> concat(accum[t])]
    /\ step' = "saved"
    /\ UNCHANGED <<plays_df, game_i, game_result, accum, failed_games, ff_rows,
                   games_df, report, tracker_vars>>

check_completeness_mut_ignore_failed(expected, plays, failed) ==
    LET expected_ids == id_strings(expected)
        pbp_ids == id_strings([k \in 1..Len(plays) |-> plays[k].gameId])
        failed_ids == {as_str(failed[k].gameId) : k \in 1..Len(failed)}
    IN  [expected_count |-> Cardinality(expected_ids),
         pbp_fetched_count |-> Cardinality(pbp_ids),
         processed_count |-> Cardinality(pbp_ids \ failed_ids),
         failed_count |-> Cardinality(failed_ids),
         missing_pbp |-> sorted_strings(expected_ids \ pbp_ids, 1),
         failed_analysis |-> sorted_strings(expected_ids \cap failed_ids, 1),
         is_complete |-> expected_ids \ pbp_ids = {}]
\* check_completeness(games_df, plays_df, failed_games): plays_df is given by
\* its games, each standing for the rows that carry its gameId.
check_completeness(expected, plays, failed) ==
    LET expected_ids == id_strings(expected)
        pbp_ids == id_strings([k \in 1..Len(plays) |-> plays[k].gameId])
        failed_ids == {as_str(failed[k].gameId) : k \in 1..Len(failed)}
        processed_ids == pbp_ids \ failed_ids
        missing_pbp == expected_ids \ pbp_ids
        failed_analysis == expected_ids \cap failed_ids
    IN  [expected_count |-> Cardinality(expected_ids),
         pbp_fetched_count |-> Cardinality(pbp_ids),
         processed_count |-> Cardinality(processed_ids),
         failed_count |-> Cardinality(failed_ids),
         missing_pbp |-> sorted_strings(missing_pbp, 1),
         failed_analysis |-> sorted_strings(failed_analysis, 1),
         is_complete |-> (missing_pbp = {} /\ failed_analysis = {})]

\* The end of run_pipeline: the completeness report it returns.
Report ==
    /\ step = "saved"
    /\ report' = check_completeness(games_df, plays_df, failed_games)
    /\ step' = "returned"
    /\ UNCHANGED <<plays_df, game_i, game_result, accum, failed_games, ff_rows, to_save,
                   games_df, tracker_vars>>

\* main after run_pipeline: status 2 for a report that is not complete, the
\* interpreter's status 1 for the exception nobody caught, 0 otherwise.
Main ==
    /\ step \in {"returned", "returned_none", "raised"}
    /\ step' = IF step = "raised" THEN "exit_1"
               ELSE IF step = "returned" /\ report.is_complete = FALSE THEN "exit_2"
               ELSE "exit_0"
    /\ UNCHANGED <<plays_df, game_i, game_result, accum, failed_games, ff_rows, to_save,
                   games_df, report, tracker_vars>>

PipelineNext == CollectPlays \/ ProcessGame \/ FourFactors \/ Concat \/ Report \/ Main

PipelineSpec == PipelineInit /\ [][PipelineNext]_vars

\* ================================================================= claims
\* The possession ids a record stream holds.
PossessionIds == {records[k].possession_id : k \in 1..Len(records)}

\* A possession's raw outcome, read off the record stream: the outcome of its last
\* record that has one.
RawOutcomeOf(pid) ==
    LET ks == {k \in 1..Len(records) :
                 records[k].possession_id = pid /\ records[k].outcome # Null}
    IN  IF ks = {} THEN Null
        ELSE records[CHOOSE k \in ks : \A j \in ks : j <= k].outcome

Done == pc = "done"

SummaryRows == possessions.rows

\* C1: track_possessions_v2 emits exactly one record per input event: after k
\* rows of the loop there are k records, the records' play_ids are the ids of
\* the rows consumed, each once and in order, and every record carries one
\* possession id, a natural number; at the end the records are as many as the
\* input events and every input id is the play_id of exactly one record.
C1_OneRecordPerEvent ==
    /\ pc \in {"track", "done"} =>
        /\ Len(records) = i
        /\ \A k \in 1..Len(records) :
            /\ records[k].play_id = game_df[k].id
            /\ records[k].possession_id \in Nat
    /\ Done =>
        /\ Len(records) = Len(events)
        /\ \A e \in 1..Len(events) :
            Cardinality({k \in 1..Len(records) : records[k].play_id = events[e].id}) = 1

\* C1 witness: a full-length log has been tracked, with an and-one rewrite on the way.
C1_Witness ==
    Done /\ Len(events) = MaxLen + 2 /\ Len(records) = MaxLen + 2 /\ and1_count > 0

\* C2: at every point of the pass the counter is >= 0 and the possession ids of
\* the records emitted so far start at 0, never decrease and never rise by more
\* than one from a record to the next, and-one rewrites included.
C2_IdsMonotone ==
    /\ poss_id >= 0
    /\ records # <<>> => records[1].possession_id = 0
    /\ \A k \in 1..(Len(records) - 1) :
        /\ records[k].possession_id <= records[k + 1].possession_id
        /\ records[k + 1].possession_id <= records[k].possession_id + 1
    /\ records # <<>> => records[Len(records)].possession_id <= poss_id

\* C2 witness: an and-one rewrite has just moved at least two records down to a
\* possession that is not the first.
C2_Witness ==
    /\ pc = "track"
    /\ and1_count > 0
    /\ Len(records) >= 4
    /\ records[Len(records)].possession_id = 1
    /\ records[Len(records) - 1].possession_id = 1
    /\ records[Len(records) - 2].possession_id = 1
    /\ records[Len(records)].play_type = "MadeFreeThrow"
    /\ records[Len(records) - 2].outcome = "made_fg"
    /\ records[Len(records) - 2].team = records[Len(records)].team

\* The summary rows that carry a possession id (all but the all-NaN row).
RealRows == SelectSeq(SummaryRows, LAMBDA r : r.possession_id # NoneNum)

Classified == Done /\ possessions.status = "ok"

KeptIds == {pid \in PossessionIds : RawOutcomeOf(pid) # "end_period"}

\* C3 (as claimed): after classify_possessions the possession ids of the rows
\* remaining in the summary are 0, 1, 2, ... without a gap.
C3_SummaryIdsContiguous ==
    Classified => \A k \in 1..Len(RealRows) : RealRows[k].possession_id = k - 1

\* C3 (amended): the possession ids of the record stream are 0..n without a gap;
\* the summary rows that carry an id carry exactly the ids of the possessions
\* whose raw outcome is not end_period, in strictly increasing order and not
\* renumbered, so each end_period possession that was dropped leaves a gap.
C3_SummaryIdsAreKeptIds ==
    Classified =>
        /\ PossessionIds = 0..(Cardinality(PossessionIds) - 1)
        /\ \A k \in 1..(Len(RealRows) - 1) :
            RealRows[k].possession_id < RealRows[k + 1].possession_id
        /\ {RealRows[k].possession_id : k \in 1..Len(RealRows)} = KeptIds

\* C3 witness: a summary with a gap where an end_period possession was dropped.
C3_Witness ==
    /\ Classified
    /\ \E k \in 1..(Len(RealRows) - 1) :
        /\ RealRows[k + 1].possession_id = RealRows[k].possession_id + 2
        /\ RawOutcomeOf(RealRows[k].possession_id + 1) = "end_period"

NeutralBetween == {"PersonalFoul", "Substitution", "Official TV Timeout"}

\* A made field goal by a team at row f and, after nothing but fouls,
\* substitutions and timeouts, a made non-technical "1 of 1" free throw by the
\* same team in the same period at row g.
IsAndOnePair(f, g) ==
    /\ f < g
    /\ game_df[f].playType \in FG_TYPES
    /\ game_df[f].team # Null
    /\ records[f].outcome = "made_fg"
    /\ game_df[g].playType = "MadeFreeThrow"
    /\ game_df[g].team = game_df[f].team
    /\ game_df[g].period = game_df[f].period
    /\ "1 of 1" \in game_df[g].playText
    /\ "makes" \in game_df[g].playText
    /\ ~tech_ft_flags[game_df[g].index]
    /\ \A h \in (f + 1)..(g - 1) : game_df[h].playType \in NeutralBetween

\* C4 (as claimed): in a game of two teams, a made field goal by team A followed,
\* after fouls, substitutions and timeouts only, by a made non-technical "1 of 1"
\* free throw by team A leaves both records in the same possession, and that
\* possession's summary row has refined_outcome made_ft.
C4_AndOneMerges ==
    (Classified /\ Len(teams) = 2) =>
        \A f, g \in 1..Len(records) :
            IsAndOnePair(f, g) =>
                /\ records[f].possession_id = records[g].possession_id
                /\ \E k \in 1..Len(SummaryRows) :
                    /\ SummaryRows[k].possession_id = records[g].possession_id
                    /\ SummaryRows[k].refined_outcome = "made_ft"

\* The records before position k all carry the id pid from k to the end.
InTrailingRun(recs, k, pid) == \A j \in k..Len(recs) : recs[j].possession_id = pid

\* C5: a step that performs the and-one correction lowers the counter by one
\* (the free throw's own record carries the lowered id; the counter ends the
\* step at the lowered id, or one above it when the free throw ends the
\* possession), and rewrites possession_id and possession_team, to the lowered
\* id and the acting team, on exactly the trailing run of records that carried
\* the old id; every other record and every other field is as it was.
C5_AndOneFrame ==
    [][ (pc = "track" /\ and1_count' = and1_count + 1) =>
          LET n == Len(records)
              acting == game_df[i + 1].team
          IN  /\ Len(records') = n + 1
              /\ records'[n + 1].possession_id = poss_id - 1
              /\ records'[n + 1].possession_team = acting
              /\ poss_id' = IF records'[n + 1].outcome = "made_ft"
                            THEN poss_id ELSE poss_id - 1
              /\ \A k \in 1..n :
                    IF InTrailingRun(records, k, poss_id)
                    THEN records'[k] = [records[k] EXCEPT !.possession_id = poss_id - 1,
                                                          !.possession_team = acting]
                    ELSE records'[k] = records[k]
      ]_vars

\* C5 witness: an and-one correction has just moved a foul and the records
\* around it down into the field goal's possession, above an earlier possession.
C5_Witness ==
    /\ pc = "track"
    /\ and1_count = 1
    /\ last_end_reason = "and1_ft"
    /\ Len(records) >= 4
    /\ records[Len(records)].play_type = "MadeFreeThrow"
    /\ records[Len(records) - 1].play_type = "PersonalFoul"
    /\ records[Len(records) - 1].possession_id = records[Len(records)].possession_id
    /\ records[Len(records) - 1].possession_team = records[Len(records)].team
    /\ records[Len(records) - 2].outcome = "made_fg"
    /\ records[Len(records) - 2].team = records[Len(records)].team
    /\ records[1].possession_id < records[Len(records)].possession_id

\* The row the loop is about to consume.
NextRow == game_df[i + 1]

Stepping == pc = "track" /\ i < Len(game_df)

\* C6: a MadeFreeThrow that directly follows a TechnicalFoul at the same period
\* and clock is classified technical; a MadeFreeThrow classified technical gets
\* outcome tech_ft and leaves counter, owner, and-one trackers and the records
\* emitted before it unchanged, whatever its text says, and no and-one
\* correction runs at it.
C6_TechFtNeutral ==
    [][ (Stepping /\ NextRow.playType = "MadeFreeThrow") =>
          /\ (i >= 1 /\ game_df[i].playType = "TechnicalFoul"
                /\ game_df[i].period = NextRow.period
                /\ game_df[i].secondsRemaining = NextRow.secondsRemaining)
               => tech_ft_flags[NextRow.index]
          /\ tech_ft_flags[NextRow.index] =>
                /\ records'[i + 1].outcome = "tech_ft"
                /\ poss_id' = poss_id
                /\ poss_team' = poss_team
                /\ and1_count' = and1_count
                /\ last_end_reason' = last_end_reason
                /\ last_end_team' = last_end_team
                /\ SubSeq(records', 1, i) = records
      ]_vars

\* C6 witness: a made "2 of 2" free throw after a technical foul at the same
\* clock got tech_ft in a possession that is not the first, and the owner, the
\* other team, kept the ball.
C6_Witness ==
    /\ pc = "track"
    /\ i >= 3
    /\ records[i].outcome = "tech_ft"
    /\ records[i].play_text = {"makes", "2 of 2"}
    /\ game_df[i - 1].playType = "TechnicalFoul"
    /\ same_clock(game_df[i - 1], game_df[i])
    /\ poss_id = 1
    /\ poss_team # Null
    /\ poss_team # records[i].team

\* C7: a Dead Ball Rebound by a team that directly follows, in the same period,
\* a missed field-goal-type event by the same team is classified
\* same_team_fg_miss, its record has outcome dead_ball_rebound, and counter and
\* owner are the same after the event as before it.
C7_SameTeamDeadBall ==
    [][ (/\ Stepping
         /\ NextRow.playType = "Dead Ball Rebound"
         /\ NextRow.team # Null
         /\ i >= 1
         /\ game_df[i].playType \in FG_TYPES
         /\ game_df[i].playText \cap {"misses", "missed"} # {}
         /\ game_df[i].team = NextRow.team
         /\ game_df[i].period = NextRow.period) =>
          /\ db_reb_classes[NextRow.index] = "same_team_fg_miss"
          /\ records'[i + 1].outcome = "dead_ball_rebound"
          /\ poss_id' = poss_id
          /\ poss_team' = poss_team
      ]_vars

\* C7 witness: the rebound after the team's own miss has been recorded and the
\* team still owns the same possession.
C7_Witness ==
    /\ pc = "track"
    /\ i >= 2
    /\ records[i].outcome = "dead_ball_rebound"
    /\ records[i - 1].play_type \in FG_TYPES
    /\ records[i - 1].team = records[i].team
    /\ game_df[i - 1].period = game_df[i].period
    /\ records[i].team # Null
    /\ poss_team = records[i].team
    /\ poss_id = records[i - 1].possession_id

PeriodEnd == {"End Period", "End Game"}

\* C8: every End Period or End Game event gets outcome end_period, raises the
\* counter by one and clears the owner; the possession that holds its record has
\* raw outcome end_period and no row in the summary, while the record stream
\* keeps the record.
C8_EndPeriod ==
    /\ [][ (Stepping /\ NextRow.playType \in PeriodEnd) =>
             /\ records'[i + 1].outcome = "end_period"
             /\ poss_id' = poss_id + 1
             /\ poss_team' = Null
         ]_vars
    /\ [](Classified =>
            \A k \in 1..Len(records) :
                records[k].play_type \in PeriodEnd =>
                    /\ records[k].play_id = game_df[k].id
                    /\ RawOutcomeOf(records[k].possession_id) = "end_period"
                    /\ \A r \in 1..Len(SummaryRows) :
                        SummaryRows[r].possession_id # records[k].possession_id)

\* C8 witness: a classified game with an End Period record between two
\* possessions that the summary keeps.
C8_Witness ==
    /\ Classified
    /\ Len(RealRows) >= 2
    /\ \E k \in 1..Len(records) :
        /\ records[k].play_type = "End Period"
        /\ records[k].possession_id > RealRows[1].possession_id
        /\ records[k].possession_id < RealRows[Len(RealRows)].possession_id

\* C9 (as claimed): for a game with at least one event, classify_possessions
\* returns a table that has exactly one row for each possession id of the
\* record stream whose raw outcome is not end_period and no other row, so an
\* empty table when every possession ends in end_period.
C9_OneRowPerKeptPossession ==
    (Done /\ events # <<>>) =>
        /\ possessions.status = "ok"
        /\ \A k \in 1..Len(SummaryRows) : SummaryRows[k].possession_id \in KeptIds
        /\ \A pid \in KeptIds :
            Cardinality({k \in 1..Len(SummaryRows) :
                           SummaryRows[k].possession_id = pid}) = 1

TeamOutcomes ==
    {"made_fg", "made_ft", "turnover", "def_rebound", "off_rebound", "dead_ball_rebound"}

\* C10 (as claimed): in a game of two teams, every summary row of a possession
\* that holds a made field goal, a made free throw, a rebound or a turnover by
\* a team has a non-null possession_team.
C10_SummaryTeamNonNull ==
    (Classified /\ Len(teams) = 2) =>
        \A r \in 1..Len(RealRows) :
            (\E k \in 1..Len(records) :
                /\ records[k].possession_id = RealRows[r].possession_id
                /\ records[k].outcome \in TeamOutcomes
                /\ records[k].team # Null)
            => RealRows[r].possession_team # Null

\* C11 (as claimed): every row of the summary that belongs to a possession has
\* duration_sec = start_seconds - end_seconds, and that is >= 0, also when the
\* possession's records span two periods.
C11_DurationNonNegative ==
    Classified =>
        \A r \in 1..Len(RealRows) :
            /\ RealRows[r].duration_sec = RealRows[r].start_seconds - RealRows[r].end_seconds
            /\ RealRows[r].duration_sec >= 0

\* The longest log whose arrival orders are enumerated in full.
MaxPermLen == 4

\* The arrival orders tried for a log of n events: every permutation of 1..n
\* for n up to MaxPermLen; for a longer log every transposition, every rotation
\* and the reversal.
Perms(n) ==
    IF n <= MaxPermLen
    THEN {p \in [1..n -> 1..n] : \A a, b \in 1..n : a # b => p[a] # p[b]}
    ELSE {[k \in 1..n |-> IF k = a THEN b ELSE IF k = b THEN a ELSE k] : a, b \in 1..n}
         \cup {[k \in 1..n |-> ((k + a - 1) % n) + 1] : a \in 1..n}
         \cup {[k \in 1..n |-> n + 1 - k]}

\* The rows of df in the order p, as a fresh frame (labels 1..n in arrival order).
Permuted(df, p) == [k \in 1..Len(df) |-> [df[p[k]] EXCEPT !.index = k]]

\* A frame's rows without their index labels.
Unlabelled(df) == [k \in 1..Len(df) |-> [df[k] EXCEPT !.index = 0]]

\* C12: for every arrival order in Perms of a game's events (ids unique), sorting by
\* (period ascending, secondsRemaining descending, id ascending) gives the same
\* ordered sequence of events, which is the order the tracker walked, sorting
\* that sequence again (as each of the three classifiers does) leaves it as it
\* is, and track_possessions_v2 gives the same record list.
C12_OrderingDeterminism ==
    Done =>
        /\ sort_values(game_df) = game_df
        /\ records = track_possessions_v2(events)
        /\ \A p \in Perms(Len(events)) :
            /\ Unlabelled(sort_values(Permuted(events, p))) = Unlabelled(game_df)
            /\ track_possessions_v2(Permuted(events, p)) = records

\* C12 witness: a log of three or more events that arrived out of order, two of
\* them at the same clock, has been tracked, and the sort moved the first
\* arrival off the first place.
C12_Witness ==
    /\ Done
    /\ Len(events) >= 3
    /\ game_df[1].index # 1
    /\ \E a, b \in 1..Len(events) : a # b /\ same_clock(events[a], events[b])
    /\ \E k \in 1..Len(records) : records[k].outcome # Null

\* The games the per-game loop has finished.
FinishedGames == {plays_df[k] : k \in 1..game_i}

\* The per-game tables accum holds for a game, and its rows in the outputs.
AccumEntries(t, gid) == {k \in 1..Len(accum[t]) : accum[t][k].gameId = gid}

SavedRows(t, gid) == {k \in 1..Len(to_save[t]) : to_save[t][k].gameId = gid}

FfRows(gid) == {k \in 1..Len(ff_rows) : ff_rows[k].game_id = gid}

Failures(gid) == {k \in 1..Len(failed_games) : failed_games[k].gameId = gid}

\* The game's pass through the per-game body raises: in process_single_game, in
\* compute_four_factors, or at the opponent of a four-factors row.
RaisesInProcess(game) == process_single_game(game).status = "raised"

RaisesInFourFactors(game) ==
    /\ ~RaisesInProcess(game)
    /\ \/ compute_four_factors(game.rows).status = "raised"
       \/ Len(unique_teams(game.rows, {})) = 1

\* A finished game left nothing in the accumulated tables, the four-factors
\* rows and the concatenated outputs.
NoOutputOf(gid) ==
    /\ \A t \in TableNames : AccumEntries(t, gid) = {} /\ SavedRows(t, gid) = {}
    /\ FfRows(gid) = {}

\* A finished game's tables and four-factors rows are there, once, and are what
\* the game alone gives.
OutputOf(game) ==
    /\ \A t \in TableNames :
        /\ Cardinality(AccumEntries(t, game.gameId)) = 1
        /\ \A k \in AccumEntries(t, game.gameId) :
            accum[t][k].rows = process_single_game(game).tables[t]
        /\ step = "saved" =>
            Cardinality(SavedRows(t, game.gameId)) = Len(process_single_game(game).tables[t])
    /\ Cardinality(FfRows(game.gameId)) = Len(compute_four_factors(game.rows).stats)
    /\ \A k \in FfRows(game.gameId) :
        \E j \in 1..Len(compute_four_factors(game.rows).stats) :
            ff_rows[k].stats = compute_four_factors(game.rows).stats[j]

\* C13 (as claimed): a game whose pass through the per-game body raises, in
\* process_single_game or in the four-factors step, is recorded in failed_games
\* once with its game id and the cause and leaves no row in any accumulated or
\* concatenated table nor in the four-factors rows; every other game has no
\* failure recorded and its tables and rows are what the game alone gives.
C13_FailureIsolation ==
    \A game \in FinishedGames :
        IF RaisesInProcess(game) \/ RaisesInFourFactors(game)
        THEN /\ Cardinality(Failures(game.gameId)) = 1
             /\ \A k \in Failures(game.gameId) : failed_games[k].error.msg # Null
             /\ NoOutputOf(game.gameId)
        ELSE /\ Failures(game.gameId) = {}
             /\ OutputOf(game)

\* C14: a game with fewer than 2 distinct non-null teams is recorded in
\* failed_games exactly once, with the validation error that names its game id
\* and the number of teams found; nothing of it, possessions included, reaches
\* an accumulated table, the four-factors rows or an output; the loop goes on to
\* the next game, and once the loop is over every game has been handled and
\* every sibling that does not raise has its tables in place.
C14_TooFewTeamsRejected ==
    /\ \A game \in FinishedGames :
        Len(unique_teams(game.rows, {})) < 2 =>
            /\ Cardinality(Failures(game.gameId)) = 1
            /\ \A k \in Failures(game.gameId) :
                failed_games[k].error =
                    Failure("found teams, need 2", game.gameId,
                            Len(unique_teams(game.rows, {})))
            /\ NoOutputOf(game.gameId)
    /\ step \in {"concat", "saved"} =>
        /\ game_i = Len(plays_df)
        /\ \A game \in FinishedGames :
            ~(RaisesInProcess(game) \/ RaisesInFourFactors(game)) =>
                \A t \in TableNames : Cardinality(AccumEntries(t, game.gameId)) = 1

\* C14 witness: the first of two games had one team and was rejected, and the
\* game after it has its rows in the outputs.
C14_Witness ==
    /\ step = "saved"
    /\ Len(plays_df) = 2
    /\ Len(unique_teams(plays_df[1].rows, {})) = 1
    /\ Len(failed_games) = 1
    /\ failed_games[1].gameId = plays_df[1].gameId
    /\ failed_games[1].error.found = 1
    /\ SavedRows("possessions_df", plays_df[2].gameId) # {}
    /\ FfRows(plays_df[2].gameId) # {}

\* C15 (as claimed): for a game with no non-null team on any event,
\* track_possessions_v2 returns an empty record list.
C15_NoTeamsEmptyOutput == (Done /\ teams = <<>>) => records = <<>>

\* C15 (amended): for a game with no non-null team on any event,
\* track_possessions_v2 still emits one record per event, as for any game; every
\* record has a null possession_team and the owner stays null throughout, and
\* the output is empty only when the game has no event.
C15_NoTeamsNullOwner ==
    (pc \in {"track", "done"} /\ teams = <<>>) =>
        /\ Len(records) = i
        /\ poss_team = Null
        /\ \A k \in 1..Len(records) :
            records[k].possession_team = Null /\ records[k].team = Null
        /\ Done => (Len(records) = Len(events) /\ (records = <<>> <=> events = <<>>))

\* C15 witness: a game of three or more events without any team has been
\* tracked into more than one possession.
C15_Witness ==
    /\ Done
    /\ teams = <<>>
    /\ Len(events) >= 3
    /\ Len(records) = Len(events)
    /\ poss_id >= 2
    /\ \E k \in 1..Len(records) : records[k].outcome = Null

\* C16: an event whose playType is null is recorded with play_type "" and no
\* outcome, and leaves the counter, the owner, the and-one trackers and the
\* records before it as they were; no and-one correction runs at it.
C16_NullPlayTypeNeutral ==
    [][ (Stepping /\ NextRow.playType = Null) =>
          /\ Len(records') = i + 1
          /\ records'[i + 1].play_type = ""
          /\ records'[i + 1].outcome = Null
          /\ records'[i + 1].play_id = NextRow.id
          /\ poss_id' = poss_id
          /\ poss_team' = poss_team
          /\ last_end_reason' = last_end_reason
          /\ last_end_team' = last_end_team
          /\ and1_count' = and1_count
          /\ SubSeq(records', 1, i) = records
      ]_vars

\* C16 witness: an event with null playType and null playText was recorded
\* right after a made field goal, and the and-one trackers still hold the make.
C16_Witness ==
    /\ pc = "track"
    /\ i >= 2
    /\ game_df[i].playType = Null
    /\ game_df[i].playText = NullTxt
    /\ records[i].play_type = ""
    /\ last_end_reason = "made_fg"
    /\ last_end_team # Null
    /\ poss_id = 1

\* The points of a made field goal with the given text.
FgPoints(txt) == IF "three point" \in safe_txt(txt) THEN 3 ELSE 2

\* The points the records account for: made_fg by its value, made_ft by one.
RECURSIVE RecordPoints(_)
RecordPoints(recs) ==
    IF recs = <<>> THEN 0
    ELSE RecordPoints(Tail(recs))
         + (IF Head(recs).outcome = "made_fg" THEN FgPoints(Head(recs).play_text)
            ELSE IF Head(recs).outcome = "made_ft" THEN 1
            ELSE 0)

\* The points scored in the log: every made field goal by its value, every made
\* free throw that is not technical by one.
RECURSIVE LogPoints(_, _)
LogPoints(df, tech) ==
    IF df = <<>> THEN 0
    ELSE LogPoints(Tail(df), tech)
         + (IF Head(df).playType \in FG_TYPES /\ is_made(safe_txt(Head(df).playText))
            THEN FgPoints(Head(df).playText)
            ELSE IF /\ Head(df).playType = "MadeFreeThrow"
                    /\ is_made(safe_txt(Head(df).playText))
                    /\ ~tech[Head(df).index]
            THEN 1
            ELSE 0)

\* C17 (as claimed): the points of the records with outcome made_fg (2 or 3)
\* plus one for each record with outcome made_ft add up to the points of all
\* made field goals and made non-technical free throws of the log.
C17_PointsConserved == Done => RecordPoints(records) = LogPoints(game_df, tech_ft_flags)

\* The record list as a fresh event log: each record an event with the record's
\* play type, text, team and play id, at the clock of the play with that id, in
\* the emitted order.
AsEvents(recs) ==
    [k \in 1..Len(recs) |->
        LET play == game_df[CHOOSE p \in 1..Len(game_df) : game_df[p].id = recs[k].play_id]
        IN  [index |-> k, id |-> recs[k].play_id, period |-> play.period,
             secondsRemaining |-> play.secondsRemaining, playType |-> recs[k].play_type,
             playText |-> recs[k].play_text, team |-> recs[k].team]]

PossessionIdsOf(recs) == [k \in 1..Len(recs) |-> recs[k].possession_id]

C19_PossessionsNonNegative ==
    \A k \in 1..Len(ff_rows) : ff_rows[k].stats.Possessions >= 0

\* The number of a team's rows in a game whose playType is in types.
CountOf(game, team, types) ==
    Cardinality({k \in 1..Len(game.rows) :
                   game.rows[k].team = team /\ game.rows[k].playType \in types})

ReboundTypes == {"Offensive Rebound", "Defensive Rebound", "Dead Ball Rebound"}

NoFtNoRebound(game) ==
    \A k \in 1..Len(game.rows) :
        game.rows[k].playType \notin ReboundTypes \cup {"MadeFreeThrow"}

\* C20: in a game without MadeFreeThrow and rebound events, every team's
\* four-factors Possessions (kept in tenths) is its FGA + TOV, FGA the number of
\* its field-goal-type events and TOV the number of its events whose playType
\* contains "Turnover".
C20_PossessionsFgaPlusTov ==
    \A game \in FinishedGames :
        NoFtNoRebound(game) =>
            \A k \in FfRows(game.gameId) :
                ff_rows[k].stats.Possessions =
                    10 * (CountOf(game, ff_rows[k].team, FG_TYPES)
                          + CountOf(game, ff_rows[k].team, TurnoverTypes))

\* C20 witness: a game without free throws and rebounds has its two rows, one
\* team with two field-goal attempts and the other with a turnover.
C20_Witness ==
    \E game \in FinishedGames :
        /\ NoFtNoRebound(game)
        /\ Cardinality(FfRows(game.gameId)) = 2
        /\ \E a, b \in FfRows(game.gameId) :
            /\ ff_rows[a].stats.FGA = 2
            /\ ff_rows[a].stats.Possessions = 20
            /\ ff_rows[b].stats.TOV = 1
            /\ ff_rows[b].stats.Possessions = 10

\* The ids of the expected games, of the games with plays, of the failed games.
ExpectedIds == {games_df[k] : k \in 1..Len(games_df)}

PbpIds == {plays_df[k].gameId : k \in 1..Len(plays_df)}

FailedIds == {failed_games[k].gameId : k \in 1..Len(failed_games)}

\* The members of a list.
Members(list) == {list[k] : k \in 1..Len(list)}

\* C21: the report run_pipeline returns has is_complete true exactly when every
\* expected game id has plays and is not among the failed games; missing_pbp
\* lists, each once, the expected ids without plays and failed_analysis the
\* expected ids among the failed games; the counts are the sizes of the sets.
C21_CompletenessReport ==
    step = "returned" =>
        /\ report.is_complete = (ExpectedIds \subseteq (PbpIds \ FailedIds))
        /\ Members(report.missing_pbp) = {as_str(g) : g \in ExpectedIds \ PbpIds}
        /\ Len(report.missing_pbp) = Cardinality(ExpectedIds \ PbpIds)
        /\ Members(report.failed_analysis) = {as_str(g) : g \in ExpectedIds \cap FailedIds}
        /\ Len(report.failed_analysis) = Cardinality(ExpectedIds \cap FailedIds)
        /\ report.expected_count = Cardinality(ExpectedIds)
        /\ report.pbp_fetched_count = Cardinality(PbpIds)
        /\ report.processed_count = Cardinality(PbpIds \ FailedIds)
        /\ report.failed_count = Cardinality(FailedIds)

\* C21 witness: a report on three expected games, one without plays, one that
\* failed and one that was processed.
C21_Witness ==
    /\ step = "returned"
    /\ report.is_complete = FALSE
    /\ report.expected_count = 3
    /\ Len(report.missing_pbp) = 1
    /\ Len(report.failed_analysis) = 1
    /\ report.processed_count = 1

\* ------------------------------------------------- free-throw outcomes
\* What a row's text says, read off the raw text.
SaysMade(row) ==
    "makes" \in row.playText \/ (" made " \in row.playText /\ "missed" \notin row.playText)

TeamSet == {teams[k] : k \in DOMAIN teams}

\* A MadeFreeThrow row that is not classified technical is next.
PlainFtNext ==
    Stepping /\ NextRow.playType = "MadeFreeThrow" /\ ~tech_ft_flags[NextRow.index]

MadeFgRecord(k) ==
    /\ records[k].play_type \in FG_TYPES
    /\ records[k].team # Null
    /\ "makes" \in records[k].play_text
         \/ (" made " \in records[k].play_text /\ "missed" \notin records[k].play_text)

\* C23: in a game of two teams, once a field-goal-type event by team T whose
\* text says it was made has been recorded, its record has outcome made_fg, the
\* counter is one more than the id on the record, and the owner of the next
\* possession is the other team, not T, whoever owned the ball before.
C23_MadeFgFlipsToOpponent ==
    (pc = "track" /\ i >= 1 /\ Len(teams) = 2 /\ MadeFgRecord(i)) =>
        /\ records[i].outcome = "made_fg"
        /\ poss_id = records[i].possession_id + 1
        /\ poss_team \in TeamSet \ {records[i].team}

\* ------------------------------------------------- the and-one window
\* The play types that leave the and-one trackers alone.
AndOneNeutralTypes ==
    {"PersonalFoul", "MadeFreeThrow", "Substitution", "Official TV Timeout", ""}

\* The step about to be taken ends a possession: the counter ends up above the
\* id on the record it writes.
EndsPossession == poss_id' = records'[i + 1].possession_id + 1

\* Record f is a made field goal that ended its possession and every event
\* after it up to the row about to be consumed has a neutral play type.
OpensAndOneWindow(f) ==
    /\ records[f].outcome = "made_fg"
    /\ \A k \in (f + 1)..i : records[k].play_type \in AndOneNeutralTypes

\* C24: the and-one correction runs at a MadeFreeThrow only if some made field
\* goal before it ended a possession and every event between the two has
\* playType PersonalFoul, MadeFreeThrow, Substitution, Official TV Timeout or
\* empty; and an event of any other type that does not end a possession clears
\* both and-one trackers, so that no correction runs at the next event.
C24_AndOneWindow ==
    [][ Stepping =>
          /\ and1_count' # and1_count =>
                /\ NextRow.playType = "MadeFreeThrow"
                /\ \E f \in 1..i : OpensAndOneWindow(f)
          /\ (safe_str(NextRow.playType) \notin AndOneNeutralTypes /\ ~EndsPossession) =>
                /\ last_end_reason' = Null
                /\ last_end_team' = Null
          /\ (last_end_reason = Null \/ last_end_team = Null) => and1_count' = and1_count
      ]_vars

\* C24 witness: after a made field goal and a personal foul the shooter's free
\* throw was merged into the field goal's possession, and the jump ball after
\* it cleared the trackers.
C24_Witness ==
    /\ pc = "track"
    /\ i = 4
    /\ records[1].outcome = "made_fg"
    /\ records[2].play_type = "PersonalFoul"
    /\ records[3].play_type = "MadeFreeThrow"
    /\ records[3].possession_id = records[1].possession_id
    /\ and1_count = 1
    /\ records[4].play_type \notin AndOneNeutralTypes
    /\ records[4].outcome = Null
    /\ last_end_reason = Null
    /\ last_end_team = Null

\* ------------------------------------------------- and-one corrections counted
\* The made field goals that ended a possession, among the given records.
MadeFgEndings(recs) == {k \in DOMAIN recs : recs[k].outcome = "made_fg"}

\* C25: an and-one correction runs only while the last possession ender is a
\* made field goal and leaves it no longer one; the last ender becomes a made
\* field goal only at a made field goal that ends a possession; so each such
\* ending is corrected at most once, and the corrections made never outnumber
\* the made field goals that ended a possession.
C25_OneCorrectionPerMadeFg ==
    [][ Stepping =>
          /\ and1_count' # and1_count =>
                /\ and1_count' = and1_count + 1
                /\ last_end_reason = "made_fg"
                /\ last_end_reason' # "made_fg"
          /\ (last_end_reason' = "made_fg" /\ last_end_reason # "made_fg") =>
                records'[i + 1].outcome = "made_fg"
          /\ and1_count' <= Cardinality(MadeFgEndings(records'))
      ]_vars

\* C25 witness: a made field goal, the shooter's made last free throw merged
\* into it, and then another free throw of the same team, from the other
\* team's possession, that was not merged.
C25_Witness ==
    /\ pc = "track"
    /\ i = 3
    /\ records[1].outcome = "made_fg"
    /\ records[2].outcome = "made_ft"
    /\ records[2].possession_id = records[1].possession_id
    /\ records[3].play_type = "MadeFreeThrow"
    /\ records[3].team = records[2].team
    /\ records[3].possession_team # records[3].team
    /\ records[3].possession_id = records[2].possession_id + 1
    /\ and1_count = 1

\* ------------------------------------------------- dead-ball rebounds
\* C26: the record of a Dead Ball Rebound always has outcome dead_ball_rebound;
\* when the event is classified end_possession the counter goes up by one and
\* the rebounding team owns the next possession; under any other
\* classification counter and owner are the same after the event as before it.
C26_DeadBallRebound ==
    [][ (Stepping /\ NextRow.playType = "Dead Ball Rebound") =>
          /\ records'[i + 1].outcome = "dead_ball_rebound"
          /\ db_reb_classes[NextRow.index] = "end_possession" =>
                /\ poss_id' = poss_id + 1
                /\ poss_team' = NextRow.team
          /\ db_reb_classes[NextRow.index] # "end_possession" =>
                /\ poss_id' = poss_id
                /\ poss_team' = poss_team
      ]_vars

\* C26 witness: a team's rebound of its own miss left the possession open, and
\* its rebound of the other team's miss closed the possession and gave it the
\* ball.
C26_Witness ==
    /\ pc = "track"
    /\ i = 4
    /\ records[2].outcome = "dead_ball_rebound"
    /\ db_reb_classes[game_df[2].index] = "same_team_fg_miss"
    /\ records[3].possession_id = records[2].possession_id
    /\ records[4].outcome = "dead_ball_rebound"
    /\ db_reb_classes[game_df[4].index] = "end_possession"
    /\ records[4].team # Null
    /\ records[4].possession_team # records[4].team
    /\ poss_team = records[4].team
    /\ poss_id = records[4].possession_id + 1

\* ------------------------------------------------- non-terminal events
\* The play types the tracker has a branch for.
RecognizedTypes ==
    {"Jumpball", "MadeFreeThrow", "Steal", "Defensive Rebound", "Offensive Rebound",
     "Dead Ball Rebound", "End Period", "End Game"} \cup FG_TYPES \cup TurnoverTypes

\* C27: a Steal, an Offensive Rebound and an event of a play type the tracker
\* does not recognize leave counter and owner as they were and get outcome
\* steal, off_rebound and none; a Jumpball never changes the counter, gets no
\* outcome, and changes the owner only when there is no owner, its text
\* contains 'won' and it has a team, which then becomes the owner.
C27_NonTerminalEvents ==
    [][ Stepping =>
          LET pt == safe_str(NextRow.playType)
              rec == records'[i + 1]
          IN  /\ (pt \in {"Steal", "Offensive Rebound"} \/ pt \notin RecognizedTypes) =>
                    /\ poss_id' = poss_id
                    /\ poss_team' = poss_team
                    /\ rec.outcome = IF pt = "Steal" THEN "steal"
                                     ELSE IF pt = "Offensive Rebound" THEN "off_rebound"
                                     ELSE Null
              /\ pt = "Jumpball" =>
                    /\ poss_id' = poss_id
                    /\ rec.outcome = Null
                    /\ poss_team' =
                          IF poss_team = Null /\ "won" \in NextRow.playText
                                /\ NextRow.team # Null
                          THEN NextRow.team ELSE poss_team
      ]_vars

\* C27 witness: the jump ball gave the first possession to the team that won
\* it, and that team's steal after it left counter and owner alone.
C27_Witness ==
    /\ pc = "track"
    /\ i = 2
    /\ records[1].play_type = "Jumpball"
    /\ records[1].possession_team = records[1].team
    /\ records[1].team # Null
    /\ records[2].outcome = "steal"
    /\ records[2].possession_id = 0
    /\ poss_id = 0
    /\ poss_team = records[1].team

\* ------------------------------------------------- the last-in-trip flag
\* The "M of N" patterns with M = N.
FullCount == {"1 of 1", "2 of 2"}

\* The row after position p of the sorted rows is a MadeFreeThrow at the same
\* period and clock.
FtFollowsAtSameClock(p) ==
    /\ p < Len(game_df)
    /\ game_df[p + 1].playType = "MadeFreeThrow"
    /\ game_df[p + 1].period = game_df[p].period
    /\ game_df[p + 1].secondsRemaining = game_df[p].secondsRemaining

\* C28: for every MadeFreeThrow, when its text has an 'M of N' pattern the
\* last-in-trip flag is true exactly when M = N; when it has none, the flag is
\* true exactly when the next event in sort order is not a MadeFreeThrow at the
\* identical period and secondsRemaining.
C28_LastFtFlag ==
    pc # "start" =>
        \A p \in 1..Len(game_df) :
            game_df[p].playType = "MadeFreeThrow" =>
                last_ft_flags[game_df[p].index] =
                    IF game_df[p].playText \cap MofNTokens # {}
                    THEN game_df[p].playText \cap FullCount # {}
                    ELSE ~FtFollowsAtSameClock(p)

\* C28 witness: two free throws without an 'M of N' pattern at one clock, the
\* first flagged not last and the second flagged last.
C28_Witness ==
    /\ pc = "track"
    /\ Len(game_df) = 2
    /\ \A p \in 1..2 : /\ game_df[p].playType = "MadeFreeThrow"
                       /\ game_df[p].playText \cap MofNTokens = {}
    /\ FtFollowsAtSameClock(1)
    /\ ~last_ft_flags[game_df[1].index]
    /\ last_ft_flags[game_df[2].index]

\* ------------------------------------------------- the game's final event
\* C29: when the final event of the game in sort order is a MadeFreeThrow, it
\* is flagged last-in-trip, whatever its text.
C29_FinalFtIsLast ==
    (pc # "start" /\ game_df # <<>> /\ game_df[Len(game_df)].playType = "MadeFreeThrow") =>
        last_ft_flags[game_df[Len(game_df)].index]

\* ------------------------------------------------- the technical flag
\* The play types the backward scan is said to pass over.
TechSkipTypes == {"Substitution", "Official TV Timeout", "MadeFreeThrow", "PersonalFoul"}

\* A Technical-typed event lies at position b, among the five events before
\* position p, at the period and clock of p, with only passable events between.
TechnicalBehind(p, b) ==
    /\ b >= 1
    /\ safe_str(game_df[b].playType) \in TechnicalTypes
    /\ same_clock(game_df[b], game_df[p])
    /\ \A k \in (b + 1)..(p - 1) : game_df[k].playType \in TechSkipTypes

\* C30: a MadeFreeThrow is flagged technical exactly when a Technical-typed
\* event lies among its five immediately preceding events at the same period
\* and clock and every event between the two is a Substitution, a TV-timeout
\* marker, a MadeFreeThrow or a PersonalFoul.
C30_TechFtFlag ==
    pc # "start" =>
        \A p \in 1..Len(game_df) :
            game_df[p].playType = "MadeFreeThrow" =>
                tech_ft_flags[game_df[p].index] =
                    (\E b \in (p - 5)..(p - 1) : TechnicalBehind(p, b))

\* ------------------------------------------------- the dead-ball scan window
DbrMarkerTypes == {"Substitution", "Official TV Timeout", ""}

\* The event k + 1 places before position p of the sorted rows is a missed
\* field goal of the team of p, in the period of p, and the k events between
\* the two are markers of that period.
OwnMissBehind(p, k) ==
    LET q == p - 1 - k IN
    /\ q >= 1
    /\ game_df[q].playType \in FG_TYPES
    /\ game_df[q].playText \cap {"misses", "missed"} # {}
    /\ game_df[q].team = game_df[p].team
    /\ game_df[q].period = game_df[p].period
    /\ \A j \in (q + 1)..(p - 1) : /\ safe_str(game_df[j].playType) \in DbrMarkerTypes
                                   /\ game_df[j].period = game_df[p].period

\* C31: a Dead Ball Rebound by a team preceded by a missed field goal of that
\* team and then k Substitution or timeout markers of the same period is
\* classified same_team_fg_miss for every k from 0 to 9.
C31_ScanWindowOfTen ==
    pc # "start" =>
        \A p \in 1..Len(game_df) : \A k \in 0..9 :
            (/\ game_df[p].playType = "Dead Ball Rebound"
             /\ game_df[p].team # Null
             /\ OwnMissBehind(p, k))
                => db_reb_classes[game_df[p].index] = "same_team_fg_miss"

\* ------------------------------------------------- dead-ball rebound classes
SaysMissed(row) == row.playText \cap {"misses", "missed"} # {}

\* The positions before p, within the scan's reach, that are of another period
\* or are not a marker.
DbrStops(p) ==
    {b \in Max(p - 9, 1)..(p - 1) :
        \/ game_df[b].period # game_df[p].period
        \/ safe_str(game_df[b].playType) \notin DbrMarkerTypes}

\* The class the row at position b gives the rebound at position p.
DbrClassFrom(p, b) ==
    LET prev == game_df[b] IN
    IF prev.period # game_df[p].period THEN "end_possession"
    ELSE IF prev.playType = "MadeFreeThrow"
    THEN IF ~last_ft_flags[prev.index] THEN "mid_ft_sequence"
         ELSE IF SaysMade(prev) THEN "after_made_last_ft"
         ELSE "end_possession"
    ELSE IF prev.playType \in FG_TYPES /\ SaysMissed(prev)
              /\ prev.team # Null /\ prev.team = game_df[p].team
    THEN "same_team_fg_miss"
    ELSE "end_possession"

\* The class by the nearest stop, end_possession when there is none.
DbrClassBy(p) ==
    LET stops == DbrStops(p) IN
    IF stops = {} THEN "end_possession"
    ELSE DbrClassFrom(p, CHOOSE b \in stops : \A c \in stops : c <= b)

\* C32: each Dead Ball Rebound is classified by the nearest preceding
\* same-period event, among those the scan reaches, that is not a Substitution,
\* a TV timeout or an event of empty type: a non-last free throw gives
\* mid_ft_sequence, a made last free throw after_made_last_ft, a missed field
\* goal by the rebounding team same_team_fg_miss, and a missed last free throw,
\* a missed field goal by the other team, a turnover, a personal foul, a period
\* change and no such event give end_possession.
C32_ClassByNearestNonMarker ==
    pc # "start" =>
        \A p \in 1..Len(game_df) :
            game_df[p].playType = "Dead Ball Rebound" =>
                db_reb_classes[game_df[p].index] = DbrClassBy(p)

\* ------------------------------------------------- how possessions end
EndingOutcomes ==
    {"made_fg", "made_ft", "turnover", "def_rebound", "dead_ball_rebound", "end_period"}

\* The last record, in event order, that carries the possession id.
LastRecordOf(pid) ==
    CHOOSE k \in 1..Len(records) :
        /\ records[k].possession_id = pid
        /\ \A j \in 1..Len(records) : records[j].possession_id = pid => j <= k

HighestId == CHOOSE m \in PossessionIds : \A pid \in PossessionIds : pid <= m

\* The raw_outcome classify_possessions computes for the possession, kept in the
\* summary or not.
ComputedRawOutcome(pid) == possession_row(merge_time(records, game_df), pid).raw_outcome

\* C33: in the final record stream, the last record of every possession id
\* other than the highest one is a possession-ending event (made_fg, made_ft,
\* turnover, def_rebound, a dead_ball_rebound classified end_possession, or
\* end_period), and the raw_outcome computed for the possession is that
\* record's outcome.
C33_PossessionsEndOnEnder ==
    Classified =>
        \A pid \in PossessionIds \ {HighestId} :
            LET k == LastRecordOf(pid) IN
            /\ records[k].outcome \in EndingOutcomes
            /\ records[k].outcome = "dead_ball_rebound" =>
                  db_reb_classes[game_df[k].index] = "end_possession"
            /\ ComputedRawOutcome(pid) = records[k].outcome
            /\ \A j \in 1..Len(SummaryRows) :
                  SummaryRows[j].possession_id = pid =>
                      SummaryRows[j].raw_outcome = records[k].outcome

\* C33 witness: a possession with a missed last free throw and then the other
\* team's dead-ball rebound, which closed it; the summary gives it raw_outcome
\* dead_ball_rebound, and a later possession exists.
C33_Witness ==
    /\ Classified
    /\ Len(records) = 3
    /\ records[1].outcome = "missed_last_ft"
    /\ records[2].outcome = "dead_ball_rebound"
    /\ records[2].possession_id = records[1].possession_id
    /\ records[3].possession_id = records[2].possession_id + 1
    /\ SummaryRows[1].possession_id = records[1].possession_id
    /\ SummaryRows[1].raw_outcome = "dead_ball_rebound"

\* ------------------------------------------------- turnovers
\* Some record of the possession has the outcome.
HasOutcome(pid, outcome) ==
    \E k \in 1..Len(records) :
        records[k].possession_id = pid /\ records[k].outcome = outcome

\* C34: a summary row whose raw_outcome is turnover and whose refined_outcome
\* was not overridden by block_oob has refined_outcome live_ball_turnover when
\* some record of the same possession has outcome steal, and dead_ball_turnover
\* otherwise.
C34_TurnoverRefinement ==
    Classified =>
        \A j \in 1..Len(SummaryRows) :
            LET r == SummaryRows[j] IN
            (r.raw_outcome = "turnover" /\ r.refined_outcome # "block_oob") =>
                r.refined_outcome = IF HasOutcome(r.possession_id, "steal")
                                    THEN "live_ball_turnover"
                                    ELSE "dead_ball_turnover"

\* C34 witness: a turnover possession with a steal recorded before the turnover,
\* refined live_ball_turnover.
C34_Witness ==
    /\ Classified
    /\ Len(SummaryRows) >= 1
    /\ SummaryRows[1].raw_outcome = "turnover"
    /\ SummaryRows[1].refined_outcome = "live_ball_turnover"
    /\ HasOutcome(SummaryRows[1].possession_id, "steal")

\* ------------------------------------------------- blocked out of bounds
\* Record k is a field-goal-type event whose text marks it missed and blocked.
BlockedMissRecord(k) ==
    /\ records[k].play_type \in FG_TYPES
    /\ records[k].play_text # NullTxt
    /\ "block" \in records[k].play_text
    /\ records[k].play_text \cap {"misses", "missed"} # {}

\* No record after k in the possession of k has a rebound outcome.
NoReboundAfter(k) ==
    \A j \in (k + 1)..Len(records) :
        records[j].possession_id = records[k].possession_id =>
            records[j].outcome \notin {"def_rebound", "off_rebound", "dead_ball_rebound"}

\* C35: a possession that is followed by a possession with the next id and
\* contains any blocked, missed field-goal-type event with no rebound record
\* after it in the same possession gets refined_outcome block_oob, also when
\* an earlier blocked miss of the possession was followed by a rebound.
C35_BlockOob ==
    Classified =>
        \A j \in 1..Len(SummaryRows) :
            LET r == SummaryRows[j] IN
            (/\ r.possession_id + 1 \in PossessionIds
             /\ \E k \in 1..Len(records) :
                   /\ records[k].possession_id = r.possession_id
                   /\ BlockedMissRecord(k)
                   /\ NoReboundAfter(k))
                => r.refined_outcome = "block_oob"

\* ------------------------------------------------- second chances
\* The records of a possession, by position in the record stream.
RecordsOf(pid) == {k \in 1..Len(records) : records[k].possession_id = pid}

\* The first offensive rebound of a possession that has one.
FirstOreb(pid) ==
    CHOOSE o \in RecordsOf(pid) :
        /\ records[o].outcome = "off_rebound"
        /\ \A k \in RecordsOf(pid) : records[k].outcome = "off_rebound" => o <= k

\* The field-goal attempts of the possession after record o, in event order.
FgaAfter(pid, o) == {k \in RecordsOf(pid) : k > o /\ records[k].play_type \in FG_TYPES}

\* The seconds from record o to the next field-goal attempt after it is at
\* most 3.
PutbackWithinThree(pid, o) ==
    /\ FgaAfter(pid, o) # {}
    /\ LET f == CHOOSE f \in FgaAfter(pid, o) : \A k \in FgaAfter(pid, o) : f <= k
       IN  game_df[o].secondsRemaining - game_df[f].secondsRemaining <= 3

\* All events of the possession are of one period.
WithinOnePeriod(pid) ==
    \A k, l \in RecordsOf(pid) : game_df[k].period = game_df[l].period

\* C36: a summary row of a possession, played within one period, that contains
\* an offensive rebound has possession_type scramble_putback when the next
\* field-goal attempt after the first offensive rebound comes at most 3
\* seconds after it, a putback at the rebound's own clock second included, and
\* second_chance otherwise.
C36_PutbackGap ==
    Classified =>
        \A j \in 1..Len(SummaryRows) :
            LET r == SummaryRows[j] IN
            (HasOutcome(r.possession_id, "off_rebound") /\ WithinOnePeriod(r.possession_id)) =>
                r.possession_type =
                    IF PutbackWithinThree(r.possession_id, FirstOreb(r.possession_id))
                    THEN "scramble_putback" ELSE "second_chance"

\* ------------------------------------------------- possession types
PossessionTypes ==
    {"transition", "half_court", "second_chance", "scramble_putback", "intentional_foul"}

\* The first record of a possession, in event order.
FirstRecordOf(pid) == CHOOSE k \in RecordsOf(pid) : \A j \in RecordsOf(pid) : k <= j

StartSeconds(pid) == game_df[FirstRecordOf(pid)].secondsRemaining

\* The possession's fouls that are not shooting fouls.
NonShootingFouls(pid) ==
    {k \in RecordsOf(pid) :
        /\ records[k].play_type \in FoulTypes
        /\ records[k].play_text = NullTxt \/ "shooting" \notin records[k].play_text}

FgaOf(pid) == {k \in RecordsOf(pid) : records[k].play_type \in FG_TYPES}

\* The type of a possession without an offensive rebound, in priority order.
TypeByPriority(pid) ==
    IF /\ \E k \in NonShootingFouls(pid) :
             StartSeconds(pid) - game_df[k].secondsRemaining <= 10
       /\ FgaOf(pid) = {}
       /\ StartSeconds(pid) <= 120
    THEN "intentional_foul"
    ELSE IF /\ FgaOf(pid) # {}
            /\ LET f == CHOOSE f \in FgaOf(pid) : \A k \in FgaOf(pid) : f <= k
               IN  StartSeconds(pid) - game_df[f].secondsRemaining <= 7
    THEN "transition"
    ELSE "half_court"

\* Every summary row of a possession without an offensive rebound has the type
\* the priority order gives.
TypesFollowPriority ==
    \A j \in 1..Len(SummaryRows) :
        LET r == SummaryRows[j] IN
        (r.possession_id \in PossessionIds /\ ~HasOutcome(r.possession_id, "off_rebound"))
            => r.possession_type = TypeByPriority(r.possession_id)

\* C37: for a possession with no offensive rebound, possession_type is
\* intentional_foul when it has a non-shooting foul within 10 seconds of its
\* start, no field-goal attempt and start_seconds <= 120; else transition when
\* its first field-goal attempt comes within 7 seconds of its start; else
\* half_court. Every row of the summary has one of the five possession types.
C37_PossessionTypes ==
    Classified =>
        /\ TypesFollowPriority
        /\ \A j \in 1..Len(SummaryRows) : SummaryRows[j].possession_type \in PossessionTypes

\* ------------------------------------------------- the previous possession's end
\* Row j of the summary opens a period: it is the first row or the row before
\* it is of another period.
OpensPeriod(j) == j = 1 \/ SummaryRows[j].period # SummaryRows[j - 1].period

\* C38: in the summary, from which the end_period possessions have been
\* dropped, prev_poss_ender of a row is start_of_period exactly when the row is
\* the first one or the row before it has a different period, and otherwise it
\* is the refined_outcome of the row before it.
C38_PrevPossEnder ==
    Classified =>
        \A j \in 1..Len(SummaryRows) :
            /\ (SummaryRows[j].prev_poss_ender = "start_of_period") = OpensPeriod(j)
            /\ ~OpensPeriod(j) =>
                  SummaryRows[j].prev_poss_ender = SummaryRows[j - 1].refined_outcome
            /\ j > 1 => SummaryRows[j - 1].raw_outcome # "end_period"

\* C38 witness: three rows; between the first two an end_period possession was
\* dropped and the second row names the first row's outcome; the third row is
\* of the next period and names the sentinel.
C38_Witness ==
    /\ Classified
    /\ Len(SummaryRows) = 3
    /\ SummaryRows[2].possession_id = SummaryRows[1].possession_id + 2
    /\ RawOutcomeOf(SummaryRows[1].possession_id + 1) = "end_period"
    /\ SummaryRows[2].period = SummaryRows[1].period
    /\ SummaryRows[2].prev_poss_ender = "made_fg"
    /\ SummaryRows[3].period # SummaryRows[2].period
    /\ SummaryRows[3].prev_poss_ender = "start_of_period"

\* ------------------------------------------------- incomplete days
\* main has exited.
Exited == step \in {"exit_0", "exit_1", "exit_2"}

\* The games get_games returned that have no play or whose analysis failed.
IncompleteGames == (ExpectedIds \ PbpIds) \cup (ExpectedIds \cap FailedIds)

\* C39: whenever a game returned by get_games has no play-by-play data or
\* failed analysis, run_pipeline has returned a report with is_complete false
\* that lists the game among missing_pbp or failed_analysis, and main exits
\* with status 2; also when no game of the day has any play.
C39_IncompleteDayReported ==
    (Exited /\ IncompleteGames # {}) =>
        /\ step = "exit_2"
        /\ report.is_complete = FALSE
        /\ \A g \in IncompleteGames :
              as_str(g) \in Members(report.missing_pbp) \cup Members(report.failed_analysis)

\* ------------------------------------------------- the offline pipeline
\* C40: for every event log, fix_possessions.py (track_possessions_v2 followed
\* by classify_possessions) produces the same per-event records and the same
\* possession summary, rows, refined_outcome and prev_poss_ender included, as
\* daily_fetch.py.
C40_OfflinePipelineAgrees ==
    Done =>
        /\ fix_track_possessions_v2(events) = records
        /\ fix_classify_possessions(fix_track_possessions_v2(events), events) = possessions

====
